---- MODULE Spec2Model ----
(***************************************************************************)
(* A model of rjoin's streaming sort-merge join pipeline:                  *)
(*   rollbuf::RollBuf  ->  csvroll::Parser (+ IndexBuilder)                *)
(*     ->  Group (group_zerocopy.rs)  ->  join (join.rs)  ->  KeyFirst.    *)
(* Bytes are natural numbers, byte strings are sequences of them.  Ranges  *)
(* a..b of the source are records [start |-> a, end |-> b] with the        *)
(* source's 0-based, half-open meaning.                                    *)
(***************************************************************************)
EXTENDS Integers, Sequences, FiniteSets, Bags, TLC

\* ------------------------------------------------------------------ bytes
\* b',' : the default field delimiter
COMMA == 44
\* b'\n' : the default record terminator
NL == 10

Min(a, b) == IF a <= b THEN a ELSE b

\* s[a..b) with 0-based a, b as in a Rust slice
Slice(s, a, b) == SubSeq(s, a + 1, b)

Rng(a, b) == [start |-> a, end |-> b]

\* Option<T>: None is the empty sequence, Some(x) is <<x>>
None == << >>
Some(x) == << x >>

\* --------------------------------------------------------------- RollBuf
\* The source R: io::Read.  data is what it has not handed out yet; one
\* read call hands out at most lim bytes (a slice or a regular file fills
\* the whole request, a pipe may hand out less).
read(inner, n) ==
    LET k == Min(Min(n, Len(inner.data)), inner.lim)
    IN  [bytes |-> SubSeq(inner.data, 1, k),
         inner |-> [inner EXCEPT !.data = SubSeq(inner.data, k + 1, Len(inner.data))]]

\* max_cap: 1 << 24
MAX_CAP == 16777216

\* buf holds the bytes buf[0..end) of the Vec; cap is buf.len().
with_capacity(cap, inner) ==
    [inner |-> inner, buf |-> << >>, cap |-> cap, pos |-> 0, end |-> 0,
     is_rolled |-> FALSE, max_cap |-> MAX_CAP]

\* self.end = self.inner.read(&mut self.buf)?; self.pos = 0;
read_whole(b, rd) ==
    [b EXCEPT !.inner = rd.inner, !.buf = rd.bytes, !.end = Len(rd.bytes), !.pos = 0]

\* self.end += self.inner.read(&mut self.buf[self.end..])?; self.is_rolled = false;
read_rest(b, rd) ==
    [b EXCEPT !.inner = rd.inner, !.buf = b.buf \o rd.bytes,
              !.end = b.end + Len(rd.bytes), !.is_rolled = FALSE]

\* if self.pos >= self.end { ... }
fill_empty(b) == IF b.pos >= b.end THEN read_whole(b, read(b.inner, b.cap)) ELSE b

\* if self.is_rolled { ... }
fill_rolled(b) == IF b.is_rolled THEN read_rest(b, read(b.inner, b.cap - b.end)) ELSE b

\* let is_full = self.buf.len() == self.end; Ok(is_full)
is_full(b) == [buf |-> b, is_full |-> (b.cap = b.end)]

fill_buf(b) == is_full(fill_rolled(fill_empty(b)))

\* consume without the limit of end (the mutant of consume for C36)
consume_past(b, n) == [b EXCEPT !.pos = b.pos + n]

consume(b, n) == [b EXCEPT !.pos = Min(b.pos + n, b.end)]

\* roll that keeps the front of the window instead of its unconsumed bytes
\* (the mutant of roll for C16)
roll_front(b) ==
    [b EXCEPT !.buf = Slice(b.buf, 0, b.end - b.pos), !.pos = 0,
              !.end = b.end - b.pos, !.is_rolled = TRUE]

roll(b) ==
    IF b.pos > 0
    THEN LET aux == Slice(b.buf, b.pos, b.end)
         IN  [b EXCEPT !.buf = aux, !.pos = 0, !.end = Len(aux), !.is_rolled = TRUE]
    ELSE LET old_len == b.cap
             \* max_cap - old_len in usize: below zero it wraps to a number
             \* larger than any old_len
             reserved == IF b.max_cap >= old_len
                         THEN Min(old_len, b.max_cap - old_len)
                         ELSE old_len
         IN  [b EXCEPT !.cap = old_len + reserved, !.is_rolled = TRUE]

contents(b) == Slice(b.buf, b.pos, b.end)

\* ---------------------------------------------------------- IndexBuilder
LastRecord(records) == IF Len(records) = 0 THEN 0 ELSE records[Len(records)]

\* The walk that closes a field and a record at the end of every window,
\* also right after a terminator (the mutant of build_main_index for C9).
RECURSIVE build_main_index_closing(_, _, _, _, _, _, _)
build_main_index_closing(s, i, buf_offset, f_start, idx, fs, rt) ==
    IF i >= Len(s)
    THEN LET fields == Append(idx.fields, Rng(f_start, buf_offset + Len(s)))
         IN  [idx |-> [fields |-> fields, records |-> Append(idx.records, Len(fields))],
              f_start |-> f_start]
    ELSE IF s[i + 1] = fs \/ s[i + 1] = rt
    THEN LET f_end == buf_offset + i
             fields == Append(idx.fields, Rng(f_start, f_end))
             records == IF s[i + 1] = rt
                        THEN Append(idx.records, Len(fields))
                        ELSE idx.records
         IN  build_main_index_closing(s, i + 1, buf_offset, f_end + 1,
                                      [fields |-> fields, records |-> records], fs, rt)
    ELSE build_main_index_closing(s, i + 1, buf_offset, f_start, idx, fs, rt)

\* The walk that takes the bound of a record before it pushes the record's
\* last field (the mutant of build_main_index for C30).
RECURSIVE build_main_index_early(_, _, _, _, _, _, _)
build_main_index_early(s, i, buf_offset, f_start, idx, fs, rt) ==
    IF i >= Len(s) THEN [idx |-> idx, f_start |-> f_start]
    ELSE IF s[i + 1] = fs \/ s[i + 1] = rt
    THEN LET f_end == buf_offset + i
             fields == Append(idx.fields, Rng(f_start, f_end))
             records == IF s[i + 1] = rt
                        THEN Append(idx.records, Len(idx.fields))
                        ELSE idx.records
         IN  build_main_index_early(s, i + 1, buf_offset, f_end + 1,
                                    [fields |-> fields, records |-> records], fs, rt)
    ELSE build_main_index_early(s, i + 1, buf_offset, f_start, idx, fs, rt)

\* The walk over the separator / terminator bitmaps: bit i of a bitmap is
\* set exactly when byte i equals the searched byte, so the walk is a walk
\* over the bytes.  Every structural byte ends a field; a terminator also
\* ends a record.  The field and record this revision of build_main_index
\* pushes after the walk belong to build, which Parser::parse calls with
\* is_buf_full.
RECURSIVE build_main_index(_, _, _, _, _, _, _)
build_main_index(s, i, buf_offset, f_start, idx, fs, rt) ==
    IF i >= Len(s) THEN [idx |-> idx, f_start |-> f_start]
    ELSE IF s[i + 1] = fs \/ s[i + 1] = rt
    THEN LET f_end == buf_offset + i
             fields == Append(idx.fields, Rng(f_start, f_end))
             records == IF s[i + 1] = rt
                        THEN Append(idx.records, Len(fields))
                        ELSE idx.records
         IN  build_main_index(s, i + 1, buf_offset, f_end + 1,
                              [fields |-> fields, records |-> records], fs, rt)
    ELSE build_main_index(s, i + 1, buf_offset, f_start, idx, fs, rt)

\* IndexBuilder::build(buf, buf_offset, is_buf_full, idx) -> usize, the
\* revision Parser::parse calls.  On a full window the bytes after the last
\* structural byte stay unindexed (they are indexed again by the next
\* parse); otherwise the open record, if any, is closed at the end of the
\* window.  Returns the number of bytes indexed.
build_close(r, buf_offset, buf_end, is_buf_full) ==
    IF is_buf_full THEN [idx |-> r.idx, n |-> r.f_start - buf_offset]
    ELSE IF r.f_start < buf_end \/ Len(r.idx.fields) > LastRecord(r.idx.records)
    THEN [idx |-> [fields |-> Append(r.idx.fields, Rng(r.f_start, buf_end)),
                   records |-> Append(r.idx.records, Len(r.idx.fields) + 1)],
          n |-> buf_end - buf_offset]
    ELSE [idx |-> r.idx, n |-> buf_end - buf_offset]

build(s, buf_offset, is_buf_full, idx, fs, rt) ==
    build_close(build_main_index(s, 0, buf_offset, buf_offset, idx, fs, rt),
                buf_offset, buf_offset + Len(s), is_buf_full)

\* ---------------------------------------------------------------- Parser
from_parts(buf, fs, rt) ==
    [buf |-> buf, fs |-> fs, rt |-> rt,
     idx |-> [fields |-> << >>, records |-> << >>],
     consumed |-> None, parsed |-> 0]

\* roll_index without the loop that re-bases the records (the mutant of
\* roll_index for C27)
roll_index_fields_only(idx, buf_offset, field_offset, record_offset) ==
    LET fields == Slice(idx.fields, field_offset, Len(idx.fields))
    IN  [fields |-> [i \in 1..Len(fields) |->
                        Rng(fields[i].start - buf_offset, fields[i].end - buf_offset)],
         records |-> Slice(idx.records, record_offset, Len(idx.records))]

roll_index(idx, buf_offset, field_offset, record_offset) ==
    LET fields == Slice(idx.fields, field_offset, Len(idx.fields))
        records == Slice(idx.records, record_offset, Len(idx.records))
    IN  [fields |-> [i \in 1..Len(fields) |->
                        Rng(fields[i].start - buf_offset, fields[i].end - buf_offset)],
         records |-> [i \in 1..Len(records) |-> records[i] - field_offset]]

\* parse, if consumed > 0: the window and the index roll to the first record
\* that was not consumed
roll_consumed(p, consumed) ==
    LET record_offset == Min(consumed, Len(p.idx.records))
        field_offset == IF consumed <= Len(p.idx.records)
                        THEN p.idx.records[consumed]
                        ELSE Len(p.idx.fields)
        buf_offset == IF field_offset < Len(p.idx.fields)
                      THEN p.idx.fields[field_offset + 1].start
                      ELSE p.parsed
    IN  [p EXCEPT !.buf = roll(consume(p.buf, buf_offset)),
                  !.idx = roll_index(p.idx, buf_offset, field_offset, record_offset),
                  !.parsed = p.parsed - buf_offset]

\* parse: if let Some(consumed) = self.consumed { ... }
parse_roll(p) ==
    IF p.consumed = None THEN p
    ELSE IF p.consumed[1] > 0 THEN roll_consumed(p, p.consumed[1])
    ELSE [p EXCEPT !.buf = roll(p.buf)]

\* parse: self.parsed += self.idx_builder.build(...); Ok(is_buf_full)
parse_built(p, f, b) ==
    [parser |-> [p EXCEPT !.buf = f.buf, !.idx = b.idx, !.parsed = p.parsed + b.n],
     is_buf_full |-> f.is_full]

\* parse: let s = self.buf.contents(); ... build(&s[self.parsed..], ...)
parse_build(p, f, s) ==
    parse_built(p, f, build(Slice(s, p.parsed, Len(s)), p.parsed, f.is_full,
                            p.idx, p.fs, p.rt))

\* parse: let is_buf_full = self.buf.fill_buf()?;
parse_fill(p, f) == parse_build(p, f, contents(f.buf))

\* parse, after the roll
parse_rolled(p) == parse_fill(p, fill_buf(p.buf))

parse(p) == parse_rolled(parse_roll(p))

output(p) == [buf |-> contents(p.buf), idx |-> p.idx]

parser_consume(p, n) == [p EXCEPT !.consumed = Some(n)]

get_record(idx, n) ==
    IF n >= Len(idx.records) THEN None
    ELSE Some(Rng(IF n = 0 THEN 0 ELSE idx.records[n], idx.records[n + 1]))

\* ----------------------------------------------------------------- Group
Less == "Less"
Equal == "Equal"
Greater == "Greater"

\* <[u8] as Ord>::cmp : lexicographic, a proper prefix is smaller
RECURSIVE cmp_bytes(_, _)
cmp_bytes(a, b) ==
    IF Len(a) = 0 /\ Len(b) = 0 THEN Equal
    ELSE IF Len(a) = 0 THEN Less
    ELSE IF Len(b) = 0 THEN Greater
    ELSE IF a[1] < b[1] THEN Less
    ELSE IF a[1] > b[1] THEN Greater
    ELSE cmp_bytes(Tail(a), Tail(b))

\* cmp_records that returns after the first key position, also when the
\* fields there are equal (the mutant of cmp_records for C35)
cmp_records_first(buf0, buf1, rec_0, rec_1, key_idx0, key_idx1) ==
    IF Len(key_idx0) = 0 \/ Len(key_idx1) = 0 THEN [ok |-> TRUE, ord |-> Equal, e |-> 0]
    ELSE IF key_idx0[1] >= Len(rec_0) THEN [ok |-> FALSE, ord |-> Equal, e |-> 0]
    ELSE IF key_idx1[1] >= Len(rec_1) THEN [ok |-> FALSE, ord |-> Equal, e |-> 1]
    ELSE [ok |-> TRUE, e |-> 0,
          ord |-> cmp_bytes(Slice(buf0, rec_0[key_idx0[1] + 1].start, rec_0[key_idx0[1] + 1].end),
                            Slice(buf1, rec_1[key_idx1[1] + 1].start, rec_1[key_idx1[1] + 1].end))]

\* Result<Ordering, usize>: [ok |-> TRUE, ord] or [ok |-> FALSE, e]
RECURSIVE cmp_records(_, _, _, _, _, _)
cmp_records(buf0, buf1, rec_0, rec_1, key_idx0, key_idx1) ==
    IF Len(key_idx0) = 0 \/ Len(key_idx1) = 0 THEN [ok |-> TRUE, ord |-> Equal, e |-> 0]
    ELSE LET k0 == key_idx0[1]
             k1 == key_idx1[1]
         IN  IF k0 >= Len(rec_0) THEN [ok |-> FALSE, ord |-> Equal, e |-> 0]
             ELSE IF k1 >= Len(rec_1) THEN [ok |-> FALSE, ord |-> Equal, e |-> 1]
             ELSE LET f0 == rec_0[k0 + 1]
                      f1 == rec_1[k1 + 1]
                      c == cmp_bytes(Slice(buf0, f0.start, f0.end),
                                     Slice(buf1, f1.start, f1.end))
                  IN  IF c # Equal THEN [ok |-> TRUE, ord |-> c, e |-> 0]
                      ELSE cmp_records(buf0, buf1, rec_0, rec_1,
                                       Tail(key_idx0), Tail(key_idx1))

\* What next_group hands back: Ok(Some(range)), Ok(None), the two Err
\* messages, or "continue" while its loop has not returned yet.
Ret(kind, range, n) == [kind |-> kind, range |-> range, n |-> n]
RetContinue == Ret("continue", Rng(0, 0), 0)
RetNone == Ret("none", Rng(0, 0), 0)
RetSome(g) == Ret("some", g, 0)
\* "the record number {} has the key with lower value than the preceding record"
ErrUnsorted(n) == Ret("unsorted", Rng(0, 0), n)
\* "the record number {} has less fields than the key"
ErrLessFields(n) == Ret("less_fields", Rng(0, 0), n)

\* A Group before Group::init has run: the parser as constructed.
new_group(parser, key_idx) ==
    [parser |-> parser, key_idx |-> key_idx, first_rec |-> Rng(0, 0),
     rec |-> Rng(0, 0), group |-> Rng(0, 0), rec_count |-> 0,
     is_buf_full |-> FALSE]

\* Group::init after let is_buf_full = parser.parse()?
init_parsed(r, key_idx) ==
    IF Len(r.parser.idx.records) > 0
    THEN [parser |-> r.parser, key_idx |-> key_idx,
          first_rec |-> Rng(0, r.parser.idx.records[1]),
          rec |-> Rng(0, r.parser.idx.records[1]),
          group |-> Rng(0, 1), rec_count |-> 1, is_buf_full |-> r.is_buf_full]
    ELSE [parser |-> r.parser, key_idx |-> key_idx,
          first_rec |-> Rng(0, 0), rec |-> Rng(0, 0),
          group |-> Rng(0, 0), rec_count |-> 0, is_buf_full |-> r.is_buf_full]

init(parser, key_idx) == init_parsed(parse(parser), key_idx)

\* Which record number the "less fields" error names (e is cmp_records's Err)
less_fields_number(e, self_rec_count, rec_count) ==
    IF e = 0 THEN self_rec_count ELSE rec_count

RECURSIVE for_records(_, _)

\* The match without the arm for Ordering::Less: a record with a lower key
\* starts a new group as one with a greater key does (the mutant of
\* for_compared for C6).
for_compared_unordered(g, rec_count, rec, c) ==
    IF ~c.ok
    THEN [g |-> g, rec_count |-> rec_count,
          ret |-> ErrLessFields(less_fields_number(c.e, g.rec_count, rec_count))]
    ELSE IF c.ord # Equal
    THEN [g |-> [g EXCEPT !.first_rec = rec, !.rec = rec,
                          !.group = Rng(g.group.end, g.group.end + 1),
                          !.rec_count = rec_count],
          rec_count |-> rec_count, ret |-> RetSome(g.group)]
    ELSE for_records([g EXCEPT !.rec = rec, !.group.end = g.group.end + 1], rec_count)

\* The match whose arm for Ordering::Greater slides a full window before it
\* returns the group, so that the range returned was taken from the window
\* as it was before the slide (the mutant of for_compared for C25).
for_compared_sliding(g, rec_count, rec, c) ==
    IF ~c.ok
    THEN [g |-> g, rec_count |-> rec_count,
          ret |-> ErrLessFields(less_fields_number(c.e, g.rec_count, rec_count))]
    ELSE IF c.ord = Less
    THEN [g |-> g, rec_count |-> rec_count, ret |-> ErrUnsorted(rec_count)]
    ELSE IF c.ord = Greater
    THEN [g |-> IF g.is_buf_full
                THEN LET r == parse(parser_consume(g.parser, g.group.end))
                     IN  [g EXCEPT !.first_rec = Rng(0, rec.end - rec.start),
                                   !.rec = Rng(0, rec.end - rec.start),
                                   !.group = Rng(0, 1), !.rec_count = rec_count,
                                   !.parser = r.parser, !.is_buf_full = r.is_buf_full]
                ELSE [g EXCEPT !.first_rec = rec, !.rec = rec,
                               !.group = Rng(g.group.end, g.group.end + 1),
                               !.rec_count = rec_count],
          rec_count |-> rec_count, ret |-> RetSome(g.group)]
    ELSE for_records([g EXCEPT !.rec = rec, !.group.end = g.group.end + 1], rec_count)

\* match cmp_records(...) { ... } for the record rec, the rec_count-th of the
\* input, in the body of next_group's for loop
for_compared(g, rec_count, rec, c) ==
    IF ~c.ok
    THEN [g |-> g, rec_count |-> rec_count,
          ret |-> ErrLessFields(less_fields_number(c.e, g.rec_count, rec_count))]
    ELSE IF c.ord = Less
    THEN [g |-> g, rec_count |-> rec_count, ret |-> ErrUnsorted(rec_count)]
    ELSE IF c.ord = Greater
    THEN [g |-> [g EXCEPT !.first_rec = rec, !.rec = rec,
                          !.group = Rng(g.group.end, g.group.end + 1),
                          !.rec_count = rec_count],
          rec_count |-> rec_count, ret |-> RetSome(g.group)]
    ELSE for_records([g EXCEPT !.rec = rec, !.group.end = g.group.end + 1], rec_count)

\* the body of the for loop for the record that ends at the field re
for_record(g, rec_count, o, re) ==
    for_compared(g, rec_count, Rng(g.rec.end, re),
                 cmp_records(o.buf, o.buf, Slice(o.idx.fields, g.rec.end, re),
                             Slice(o.idx.fields, g.first_rec.start, g.first_rec.end),
                             g.key_idx, g.key_idx))

\* the for loop of next_group over records()[self.group.end..]
for_records(g, rec_count) ==
    IF g.group.end >= Len(g.parser.idx.records)
    THEN [g |-> g, rec_count |-> rec_count, ret |-> RetContinue]
    ELSE for_record(g, rec_count + 1, output(g.parser),
                    g.parser.idx.records[g.group.end + 1])

\* the window slide after self.is_buf_full = self.parser.parse()?
slid(g, r) ==
    [g EXCEPT !.first_rec = Rng(0, g.first_rec.end - g.first_rec.start),
              !.rec = Rng(g.rec.start - g.first_rec.start, g.rec.end - g.first_rec.start),
              !.group = Rng(0, g.group.end - g.group.start),
              !.parser = r.parser,
              !.is_buf_full = r.is_buf_full]

\* the slide that has the parser consume the records of the group being
\* accumulated too (the mutant of slide for C29)
slide_past(g) == slid(g, parse(parser_consume(g.parser, g.group.end)))

\* the window slide of next_group (the is_buf_full branch)
slide(g) == slid(g, parse(parser_consume(g.parser, g.group.start)))

\* the group returned as it is also when it is empty (the mutant of flush
\* for C11)
flush_as_it_is(g) ==
    [g |-> [g EXCEPT !.group = Rng(g.group.end, g.group.end)], ret |-> RetSome(g.group)]

\* the end of next_group's loop body when the window is not full
flush(g) ==
    IF g.group.start # g.group.end
    THEN [g |-> [g EXCEPT !.group = Rng(g.group.end, g.group.end)], ret |-> RetSome(g.group)]
    ELSE [g |-> g, ret |-> RetNone]

\* next_group after self.rec_count = rec_count
for_done(g) ==
    IF g.is_buf_full THEN [g |-> slide(g), ret |-> RetContinue] ELSE flush(g)

\* next_group after its for loop, without self.rec_count = rec_count: the
\* records counted in a pass that ends with a slide are forgotten (the mutant
\* of for_ended for C21)
for_ended_uncounted(f) ==
    IF f.ret.kind # "continue" THEN [g |-> f.g, ret |-> f.ret] ELSE for_done(f.g)

\* next_group after its for loop
for_ended(f) ==
    IF f.ret.kind # "continue" THEN [g |-> f.g, ret |-> f.ret]
    ELSE for_done([f.g EXCEPT !.rec_count = f.rec_count])

\* One pass of next_group's loop: ret.kind = "continue" when it loops again.
next_group_pass(g) == for_ended(for_records(g, g.rec_count))

\* --------------------------------------------------------------- Printer
\* Vec::sort of a key list
RECURSIVE sort(_)
sort(s) ==
    IF Len(s) = 0 THEN << >>
    ELSE LET i == CHOOSE i \in 1..Len(s) : \A j \in 1..Len(s) : s[i] <= s[j]
         IN  << s[i] >> \o sort(SubSeq(s, 1, i - 1) \o SubSeq(s, i + 1, Len(s)))

key_first(delimiter, terminator, key_idx0, key_idx1) ==
    [delimiter |-> delimiter, terminator |-> terminator,
     key_idx0 |-> key_idx0, key_idx0_asc |-> sort(key_idx0),
     key_idx1 |-> key_idx1, key_idx1_asc |-> sort(key_idx1)]

\* What a printing step has written, and whether it stopped by a panic
\* (an index or a slice out of range).
Out(bytes, panic) == [bytes |-> bytes, panic |-> panic]

\* "write key fields first": for k in key_idx { ...; write(buf[rf[*k]]) }
RECURSIVE write_key_fields(_, _, _, _, _)
write_key_fields(buf, rf, key_idx, delimiter, is_first) ==
    IF Len(key_idx) = 0 THEN Out(<< >>, FALSE)
    ELSE LET k == key_idx[1]
             d == IF is_first THEN << >> ELSE << delimiter >>
         IN  IF k >= Len(rf) THEN Out(d, TRUE)
             ELSE LET rest == write_key_fields(buf, rf, Tail(key_idx), delimiter, FALSE)
                  IN  Out(d \o Slice(buf, rf[k + 1].start, rf[k + 1].end) \o rest.bytes,
                          rest.panic)

\* for f in &rf[a..b] { write(delimiter); write(buf[f]) }
RECURSIVE write_fields(_, _, _, _, _)
write_fields(buf, rf, a, b, delimiter) ==
    IF a >= b THEN << >>
    ELSE << delimiter >> \o Slice(buf, rf[a + 1].start, rf[a + 1].end)
         \o write_fields(buf, rf, a + 1, b, delimiter)

\* "write non-key fields that lie in between key fields", then the rest
RECURSIVE write_non_key_fields(_, _, _, _, _)
write_non_key_fields(buf, rf, key_idx_asc, start, delimiter) ==
    IF Len(key_idx_asc) = 0
    THEN IF start > Len(rf) THEN Out(<< >>, TRUE)
         ELSE Out(write_fields(buf, rf, start, Len(rf), delimiter), FALSE)
    ELSE LET k == key_idx_asc[1]
         IN  IF start > k \/ k > Len(rf) THEN Out(<< >>, TRUE)
             ELSE LET rest == write_non_key_fields(buf, rf, Tail(key_idx_asc),
                                                   k + 1, delimiter)
                  IN  Out(write_fields(buf, rf, start, k, delimiter) \o rest.bytes,
                          rest.panic)

\* the bytes out, then the bytes rest, unless out ended in a panic
then(out, rest) ==
    IF out.panic THEN out ELSE Out(out.bytes \o rest.bytes, rest.panic)

\* one row of print_single: the body of its loop for the record fields rf
single_row(buf, rf, delimiter, terminator, key_idx, key_idx_asc) ==
    then(write_key_fields(buf, rf, key_idx, delimiter, TRUE),
         then(write_non_key_fields(buf, rf, key_idx_asc, 0, delimiter),
              Out(<< terminator >>, FALSE)))

\* the loop of print_single over records[print], from its i-th record on
RECURSIVE print_single_from(_, _, _, _, _, _, _, _, _)
print_single_from(buf, fields, records, i, print_end, delimiter, terminator, key_idx, key_idx_asc) ==
    IF i >= print_end THEN Out(<< >>, FALSE)
    ELSE then(single_row(buf, Slice(fields, IF i = 0 THEN 0 ELSE records[i],
                                    records[i + 1]),
                         delimiter, terminator, key_idx, key_idx_asc),
              print_single_from(buf, fields, records, i + 1, print_end,
                                delimiter, terminator, key_idx, key_idx_asc))

print_single(buf, fields, records, print, delimiter, terminator, key_idx, key_idx_asc) ==
    IF print.start > print.end \/ print.end > Len(records) THEN Out(<< >>, TRUE)
    ELSE print_single_from(buf, fields, records, print.start, print.end,
                           delimiter, terminator, key_idx, key_idx_asc)

print_left(p, buf, fields, records, print) ==
    print_single(buf, fields, records, print, p.delimiter, p.terminator,
                 p.key_idx0, p.key_idx0_asc)

print_right(p, buf, fields, records, print) ==
    print_single(buf, fields, records, print, p.delimiter, p.terminator,
                 p.key_idx1, p.key_idx1_asc)

\* Which key bytes a row of print_both starts with: the cached key_buf when
\* it is not empty, else the key fields of the current left record r0f.
both_key(p, buf0, r0f, key_buf) ==
    IF Len(key_buf) = 0
    THEN write_key_fields(buf0, r0f, p.key_idx0, p.delimiter, TRUE)
    ELSE Out(key_buf, FALSE)

\* the fields of the n-th record of the window (n from 0)
record_fields(fields, records, n) ==
    Slice(fields, IF n = 0 THEN 0 ELSE records[n], records[n + 1])

\* a row of print_both that keeps every field of the right record, its key
\* fields too (the mutant of both_row for C14)
both_row_all_right(p, buf0, buf1, r0f, r1f, k) ==
    IF k.panic THEN Out(<< >>, TRUE)
    ELSE Out(k.bytes \o write_non_key_fields(buf0, r0f, p.key_idx0_asc, 0, p.delimiter).bytes
                     \o write_fields(buf1, r1f, 0, Len(r1f), p.delimiter)
                     \o << p.terminator >>, FALSE)

\* One row of print_both: the key bytes k go to key_buf and from there to w,
\* then the other fields of the left record r0f and of the right record r1f.
both_row(p, buf0, buf1, r0f, r1f, k) ==
    IF k.panic THEN Out(<< >>, TRUE)
    ELSE then(Out(k.bytes, FALSE),
              then(write_non_key_fields(buf0, r0f, p.key_idx0_asc, 0, p.delimiter),
                   then(write_non_key_fields(buf1, r1f, p.key_idx1_asc, 0, p.delimiter),
                        Out(<< p.terminator >>, FALSE))))

RECURSIVE print_both_from(_, _, _, _, _, _, _, _, _, _, _, _)

\* the row of the pair (i, j) with the key bytes k, and the rows after it
both_rows(p, buf0, buf1, fields0, fields1, records0, records1, print0, print1, i, j, k) ==
    then(both_row(p, buf0, buf1, record_fields(fields0, records0, i),
                  record_fields(fields1, records1, j), k),
         print_both_from(p, buf0, buf1, fields0, fields1, records0, records1,
                         print0, print1, i, j + 1, k.bytes))

\* The two loops of print_both from the pair (i, j) on; key_buf is the cache.
print_both_from(p, buf0, buf1, fields0, fields1, records0, records1, print0, print1, i, j, key_buf) ==
    IF i >= print0.end THEN Out(<< >>, FALSE)
    ELSE IF j >= print1.end
    THEN print_both_from(p, buf0, buf1, fields0, fields1, records0, records1,
                         print0, print1, i + 1, print1.start, key_buf)
    ELSE both_rows(p, buf0, buf1, fields0, fields1, records0, records1, print0,
                   print1, i, j,
                   both_key(p, buf0, record_fields(fields0, records0, i), key_buf))

\* The two loops the other way round: for every right record, every left
\* record.
RECURSIVE right_major_from(_, _, _, _, _, _, _, _, _, _, _)
right_major_from(p, buf0, buf1, fields0, fields1, records0, records1, print0, print1, i, j) ==
    IF j >= print1.end THEN Out(<< >>, FALSE)
    ELSE IF i >= print0.end
    THEN right_major_from(p, buf0, buf1, fields0, fields1, records0, records1,
                          print0, print1, print0.start, j + 1)
    ELSE then(both_row(p, buf0, buf1, record_fields(fields0, records0, i),
                       record_fields(fields1, records1, j),
                       write_key_fields(buf0, record_fields(fields0, records0, i),
                                        p.key_idx0, p.delimiter, TRUE)),
              right_major_from(p, buf0, buf1, fields0, fields1, records0, records1,
                               print0, print1, i + 1, j))

\* print_both with the loop over the right records outside the loop over the
\* left ones (the mutant of print_both for C5).
print_both_right_major(p, buf0, buf1, fields0, fields1, records0, records1, print0, print1) ==
    right_major_from(p, buf0, buf1, fields0, fields1, records0, records1,
                     print0, print1, print0.start, print1.start)

print_both(p, buf0, buf1, fields0, fields1, records0, records1, print0, print1) ==
    IF print0.start > print0.end \/ print0.end > Len(records0)
       \/ (print0.start < print0.end
           /\ (print1.start > print1.end \/ print1.end > Len(records1)))
    THEN Out(<< >>, TRUE)
    ELSE print_both_from(p, buf0, buf1, fields0, fields1, records0, records1,
                         print0, print1, print0.start, print1.start, << >>)

\* ------------------------------------------------------------------ join
\* Result<(), Box<Error>> of join, "running" until it returns.  label is
\* the prefix join puts before a side's error, msg the error, n the record
\* number in it.
Res(kind, label, msg, n) == [kind |-> kind, label |-> label, msg |-> msg, n |-> n]
Running == Res("running", "", "", 0)
Ok == Res("ok", "", "", 0)
Panicked == Res("panic", "", "", 0)
\* "internal: the record was not grouped properly"
NotGrouped == Res("err", "internal", "not_grouped", 0)

VARIABLES
    input,    \* the two byte streams and buffer capacities the run started from
    opts,     \* JoinOptions: show_left, show_right, show_both
    p,        \* the KeyFirst printer
    group0,   \* Group<R0>: the left input's group iterator
    group1,   \* Group<R1>: the right input's group iterator
    ord,      \* join's ord
    g0,       \* join's g0: Option<Range>
    g1,       \* join's g1: Option<Range>
    w,        \* the bytes written to the output sink so far
    pc,       \* where the run is: "init", "left", "right", "match", "done"
    result,   \* what join returned
    seen0,    \* the groups group0.next_group() has returned, as their records
    seen1     \* the groups group1.next_group() has returned, as their records

vars == << input, opts, p, group0, group1, ord, g0, g1, w, pc, result, seen0, seen1 >>

State ==
    [input |-> input, opts |-> opts, p |-> p, group0 |-> group0, group1 |-> group1,
     ord |-> ord, g0 |-> g0, g1 |-> g1, w |-> w, pc |-> pc, result |-> result,
     seen0 |-> seen0, seen1 |-> seen1]

\* What the caller of next_group reads through buf_index() for a returned
\* range of records: the fields of each record, as bytes.
group_records(o, range) ==
    [i \in 1..(range.end - range.start) |->
        LET r == get_record(o.idx, range.start + i - 1)[1]
        IN  [f \in 1..(r.end - r.start) |->
                Slice(o.buf, o.idx.fields[r.start + f].start,
                      o.idx.fields[r.start + f].end)]]

\* the groups returned so far, with the one just returned, if any
seen(groups, g, ret) ==
    IF ret.kind = "some"
    THEN Append(groups, group_records(output(g.parser), ret.range))
    ELSE groups

\* run() of main.rs up to the call of join: Group::init of both sides
run_init(st) ==
    [st EXCEPT !.group0 = init(st.group0.parser, st.group0.key_idx),
               !.group1 = init(st.group1.parser, st.group1.key_idx),
               !.pc = "left"]

\* The match that notes the error of the left next_group and goes on with
\* the loop (the mutant of join_got0 for C26).
join_got0_going(st, r) ==
    IF r.ret.kind \in {"continue", "some", "none"}
    THEN IF r.ret.kind = "continue" THEN [st EXCEPT !.group0 = r.g]
         ELSE [st EXCEPT !.group0 = r.g,
                         !.seen0 = seen(st.seen0, r.g, r.ret),
                         !.g0 = IF r.ret.kind = "some" THEN Some(r.ret.range) ELSE None,
                         !.pc = IF st.ord = Equal THEN "right" ELSE "match"]
    ELSE [st EXCEPT !.group0 = r.g, !.g0 = None,
                    !.pc = IF st.ord = Equal THEN "right" ELSE "match",
                    !.result = Res("err", "left input", r.ret.kind, r.ret.n)]

\* g0 = match group0.next_group() { ... } with r what the pass left
join_got0(st, r) ==
    IF r.ret.kind = "continue" THEN [st EXCEPT !.group0 = r.g]
    ELSE IF r.ret.kind \in {"some", "none"}
    THEN [st EXCEPT !.group0 = r.g,
                    !.seen0 = seen(st.seen0, r.g, r.ret),
                    !.g0 = IF r.ret.kind = "some" THEN Some(r.ret.range) ELSE None,
                    !.pc = IF st.ord = Equal THEN "right" ELSE "match"]
    ELSE [st EXCEPT !.group0 = r.g, !.pc = "done",
                    !.result = Res("err", "left input", r.ret.kind, r.ret.n)]

\* one pass of the loop of group0.next_group(), called from join
join_next0(st) == join_got0(st, next_group_pass(st.group0))

\* g1 = match group1.next_group() { ... } with r what the pass left
join_got1(st, r) ==
    IF r.ret.kind = "continue" THEN [st EXCEPT !.group1 = r.g]
    ELSE IF r.ret.kind \in {"some", "none"}
    THEN [st EXCEPT !.group1 = r.g,
                    !.seen1 = seen(st.seen1, r.g, r.ret),
                    !.g1 = IF r.ret.kind = "some" THEN Some(r.ret.range) ELSE None,
                    !.pc = "match"]
    ELSE [st EXCEPT !.group1 = r.g, !.pc = "done",
                    !.result = Res("err", "right input", r.ret.kind, r.ret.n)]

\* one pass of the loop of group1.next_group(), called from join
join_next1(st) == join_got1(st, next_group_pass(st.group1))

\* the next turn always starts with the left input (the mutant of advance
\* for C24)
advance_left(o) == "left"

\* where the next turn of join's loop starts, from the new ord
advance(o) == IF o = Greater THEN "right" ELSE "left"

\* what a print call leaves: its bytes are written; a panic ends the run
printed(st, out, o) ==
    IF out.panic
    THEN [st EXCEPT !.w = st.w \o out.bytes, !.pc = "done", !.result = Panicked]
    ELSE [st EXCEPT !.w = st.w \o out.bytes, !.ord = o, !.pc = advance(o)]

\* idx.get_record(rng.start).unwrap_or(0..0), as the fields of that record
first_fields(o, rng, gr) ==
    IF gr = None THEN << >> ELSE Slice(o.idx.fields, gr[1].start, gr[1].end)

\* the arm (Some(rng0), Some(rng1)) of join's match, c the result of
\* cmp_records on the first records of the two groups
match_compared(st, o0, o1, rng0, rng1, c) ==
    IF ~c.ok THEN [st EXCEPT !.pc = "done", !.result = NotGrouped]
    ELSE IF c.ord = Less
    THEN printed(st, IF st.opts.show_left
                     THEN print_left(st.p, o0.buf, o0.idx.fields, o0.idx.records, rng0)
                     ELSE Out(<< >>, FALSE), Less)
    ELSE IF c.ord = Greater
    THEN printed(st, IF st.opts.show_right
                     THEN print_right(st.p, o1.buf, o1.idx.fields, o1.idx.records, rng1)
                     ELSE Out(<< >>, FALSE), Greater)
    ELSE printed(st, IF st.opts.show_both
                     THEN print_both(st.p, o0.buf, o1.buf, o0.idx.fields,
                                     o1.idx.fields, o0.idx.records,
                                     o1.idx.records, rng0, rng1)
                     ELSE Out(<< >>, FALSE), Equal)

\* the arms of join's match, with o0 and o1 what buf_index() gives
match_groups(st, o0, o1) ==
    IF st.g0 # None /\ st.g1 # None
    THEN match_compared(st, o0, o1, st.g0[1], st.g1[1],
             cmp_records(o0.buf, o1.buf,
                         first_fields(o0, st.g0[1], get_record(o0.idx, st.g0[1].start)),
                         first_fields(o1, st.g1[1], get_record(o1.idx, st.g1[1].start)),
                         st.group0.key_idx, st.group1.key_idx))
    ELSE IF st.g0 # None
    THEN IF st.opts.show_left
         THEN printed(st, print_left(st.p, o0.buf, o0.idx.fields, o0.idx.records,
                                     st.g0[1]), Less)
         ELSE [st EXCEPT !.pc = "done", !.result = Ok]
    ELSE IF st.g1 # None
    THEN IF st.opts.show_right
         THEN printed(st, print_right(st.p, o1.buf, o1.idx.fields, o1.idx.records,
                                      st.g1[1]), Greater)
         ELSE [st EXCEPT !.pc = "done", !.result = Ok]
    ELSE [st EXCEPT !.pc = "done", !.result = Ok]

\* ord = match (&g0, &g1) { ... } of join
join_match(st) ==
    match_groups(st, output(st.group0.parser), output(st.group1.parser))

\* one step of the run from the state st
step(st) ==
    IF st.pc = "init" THEN run_init(st)
    ELSE IF st.pc = "left" THEN join_next0(st)
    ELSE IF st.pc = "right" THEN join_next1(st)
    ELSE IF st.pc = "match" THEN join_match(st)
    ELSE st

\* the run to its end
RECURSIVE run(_)
run(st) == IF st.pc = "done" THEN st ELSE run(step(st))

\* --------------------------------------------------------- the run's start
\* The state after RollBuf::with_capacity, Parser::from_parts and
\* KeyFirst::from_parts, as run() of main.rs and the tests build it.
start(data0, data1, cap0, cap1, lim0, lim1, key0, key1, o) ==
    [input |-> [data0 |-> data0, data1 |-> data1, cap0 |-> cap0, cap1 |-> cap1,
                lim0 |-> lim0, lim1 |-> lim1, key0 |-> key0, key1 |-> key1],
     opts |-> o,
     p |-> key_first(COMMA, NL, key0, key1),
     group0 |-> new_group(from_parts(with_capacity(cap0, [data |-> data0, lim |-> lim0]),
                                     COMMA, NL), key0),
     group1 |-> new_group(from_parts(with_capacity(cap1, [data |-> data1, lim |-> lim1]),
                                     COMMA, NL), key1),
     ord |-> Equal, g0 |-> None, g1 |-> None, w |-> << >>, pc |-> "init",
     result |-> Running, seen0 |-> << >>, seen1 |-> << >>]

Is(st) ==
    /\ input = st.input /\ opts = st.opts /\ p = st.p
    /\ group0 = st.group0 /\ group1 = st.group1
    /\ ord = st.ord /\ g0 = st.g0 /\ g1 = st.g1
    /\ w = st.w /\ pc = st.pc /\ result = st.result
    /\ seen0 = st.seen0 /\ seen1 = st.seen1

Becomes(st) ==
    /\ input' = st.input /\ opts' = st.opts /\ p' = st.p
    /\ group0' = st.group0 /\ group1' = st.group1
    /\ ord' = st.ord /\ g0' = st.g0 /\ g1' = st.g1
    /\ w' = st.w /\ pc' = st.pc /\ result' = st.result
    /\ seen0' = st.seen0 /\ seen1' = st.seen1

\* ------------------------------------------------------------- the inputs
\* A record of an input is given by its key field and its number of
\* fields; its second field, if any, is the digit of its position in the
\* input, so that every row of the output names the records it is made of.
MaxRecs == 2
MaxFields == 2
KeyFields == { << 97 >>, << 98 >> }
Digit(i) == << 47 + i >>

RecSpecs == [key : KeyFields, nf : 1..MaxFields]
SpecsUpTo(n) == UNION { [1..m -> RecSpecs] : m \in 0..n }

\* the fields of the i-th record of the input given by spec
FieldsOf(spec, i) ==
    [f \in 1..spec[i].nf |-> IF f = 1 THEN spec[i].key ELSE Digit(i)]

RecordsOf(spec) == [i \in 1..Len(spec) |-> FieldsOf(spec, i)]

RECURSIVE JoinFields(_, _)
JoinFields(fs, sep) ==
    IF Len(fs) = 0 THEN << >>
    ELSE IF Len(fs) = 1 THEN fs[1]
    ELSE fs[1] \o << sep >> \o JoinFields(Tail(fs), sep)

\* the bytes of the input: records ended by NL, the last one only if trailing
RECURSIVE BytesOf(_, _)
BytesOf(recs, trailing) ==
    IF Len(recs) = 0 THEN << >>
    ELSE IF Len(recs) = 1
    THEN JoinFields(recs[1], COMMA) \o (IF trailing THEN << NL >> ELSE << >>)
    ELSE JoinFields(recs[1], COMMA) \o << NL >> \o BytesOf(Tail(recs), trailing)

\* the inputs of at most n records, with and without the final terminator
Inputs(n) == { BytesOf(RecordsOf(s), t) : s \in SpecsUpTo(n), t \in BOOLEAN }

Opts == [show_left : BOOLEAN, show_right : BOOLEAN, show_both : BOOLEAN]
\* a capacity that holds every input whole, and a read that fills every request
Whole == 64
\* initial RollBuf capacities
Caps == {1, 4, Whole}
\* bytes a source hands out per read call
Lims == {2, Whole}

\* Runs on the first key field under every capacity and read size.
Init ==
    \E d0 \in Inputs(MaxRecs), d1 \in Inputs(MaxRecs),
       c0 \in Caps, c1 \in Caps, l \in Lims, o \in Opts :
        Is(start(d0, d1, c0, c1, l, l, << 0 >>, << 0 >>, o))

\* Runs with a longer left input.
InitLong ==
    \E d0 \in Inputs(MaxRecs + 1), d1 \in Inputs(1), c \in Caps, l \in Lims, o \in Opts :
        Is(start(d0, d1, c, c, l, l, << 0 >>, << 0 >>, o))

\* Runs keyed on the second field, or on both fields, the windows holding
\* the inputs whole.
KeyLists == { << 1 >>, << 0, 1 >> }

InitKeys ==
    \E d0 \in Inputs(MaxRecs), d1 \in Inputs(MaxRecs), k \in KeyLists, o \in Opts :
        Is(start(d0, d1, Whole, Whole, Whole, Whole, k, k, o))

\* Group::init of both inputs
GroupInit == pc = "init" /\ Becomes(run_init(State))

\* a pass of the loop of the left input's next_group
NextGroupLeft == pc = "left" /\ Becomes(join_next0(State))

\* a pass of the loop of the right input's next_group
NextGroupRight == pc = "right" /\ Becomes(join_next1(State))

\* join compares the two groups, prints, and goes on or returns
JoinMatch == pc = "match" /\ Becomes(join_match(State))

Next == GroupInit \/ NextGroupLeft \/ NextGroupRight \/ JoinMatch

Spec == Init /\ [][Next]_vars

SpecLong == InitLong /\ [][Next]_vars

SpecKeys == InitKeys /\ [][Next]_vars

\* ------------------------------------------------ what the inputs mean
\* The pieces of s between the bytes c (one more piece than bytes c).
RECURSIVE SplitOn(_, _)
SplitOn(s, c) ==
    IF \A i \in 1..Len(s) : s[i] # c THEN << s >>
    ELSE LET i == CHOOSE i \in 1..Len(s) : s[i] = c /\ \A j \in 1..(i - 1) : s[j] # c
         IN  << SubSeq(s, 1, i - 1) >> \o SplitOn(SubSeq(s, i + 1, Len(s)), c)

\* The pieces ended by c, and the rest after the last c if it is not empty.
EndedBy(s, c) ==
    LET ps == SplitOn(s, c)
    IN  IF ps[Len(ps)] = << >> THEN SubSeq(ps, 1, Len(ps) - 1) ELSE ps

\* The records of an input: the fields of every terminated run of bytes,
\* and of the unterminated run at its end, if any.
RecordsIn(data) ==
    LET lines == EndedBy(data, NL)
    IN  [i \in 1..Len(lines) |-> SplitOn(lines[i], COMMA)]

\* The rows written so far, the unfinished one at the end included.
Rows(bytes) == EndedBy(bytes, NL)

HasKey(rec, key_idx) == \A i \in 1..Len(key_idx) : key_idx[i] < Len(rec)

KeyOf(rec, key_idx) == [i \in 1..Len(key_idx) |-> rec[key_idx[i] + 1]]

RECURSIVE CmpKeys(_, _)
CmpKeys(k0, k1) ==
    IF Len(k0) = 0 \/ Len(k1) = 0 THEN Equal
    ELSE IF cmp_bytes(k0[1], k1[1]) # Equal THEN cmp_bytes(k0[1], k1[1])
    ELSE CmpKeys(Tail(k0), Tail(k1))

RECURSIVE NonKeyFrom(_, _, _)
NonKeyFrom(rec, key_idx, i) ==
    IF i > Len(rec) THEN << >>
    ELSE (IF \E j \in 1..Len(key_idx) : key_idx[j] + 1 = i THEN << >> ELSE << rec[i] >>)
         \o NonKeyFrom(rec, key_idx, i + 1)

NonKeyOf(rec, key_idx) == NonKeyFrom(rec, key_idx, 1)

\* the key-first row of one record, and of a left and a right record
RowOf(rec, key_idx) == JoinFields(KeyOf(rec, key_idx) \o NonKeyOf(rec, key_idx), COMMA)

RowOfBoth(l, r, key_idx0, key_idx1) ==
    JoinFields(KeyOf(l, key_idx0) \o NonKeyOf(l, key_idx0) \o NonKeyOf(r, key_idx1), COMMA)

Complete(recs, key_idx) == \A i \in 1..Len(recs) : HasKey(recs[i], key_idx)

Sorted(recs, key_idx) ==
    \A i \in 1..(Len(recs) - 1) :
        CmpKeys(KeyOf(recs[i], key_idx), KeyOf(recs[i + 1], key_idx)) # Greater

RECURSIVE BagOf(_)
BagOf(s) == IF Len(s) = 0 THEN EmptyBag ELSE SetToBag({s[1]}) (+) BagOf(Tail(s))

L0 == RecordsIn(input.data0)
R0 == RecordsIn(input.data1)
K0 == input.key0
K1 == input.key1
Matches(l, r) == CmpKeys(KeyOf(l, K0), KeyOf(r, K1)) = Equal

\* The rows of the relational join, one item per row: a pair of positions
\* (i, j), with 0 for the side an unmatched record has no partner on.
JoinItems ==
    (IF opts.show_both
     THEN { << i, j >> \in (1..Len(L0)) \X (1..Len(R0)) : Matches(L0[i], R0[j]) }
     ELSE {})
    \cup (IF opts.show_left
          THEN { << i, 0 >> : i \in { i \in 1..Len(L0) :
                                        \A j \in 1..Len(R0) : ~Matches(L0[i], R0[j]) } }
          ELSE {})
    \cup (IF opts.show_right
          THEN { << 0, j >> : j \in { j \in 1..Len(R0) :
                                        \A i \in 1..Len(L0) : ~Matches(L0[i], R0[j]) } }
          ELSE {})

ItemRow(it) ==
    IF it[2] = 0 THEN RowOf(L0[it[1]], K0)
    ELSE IF it[1] = 0 THEN RowOf(R0[it[2]], K1)
    ELSE RowOfBoth(L0[it[1]], R0[it[2]], K0, K1)

RECURSIVE BagOfItems(_)
BagOfItems(S) ==
    IF S = {} THEN EmptyBag
    ELSE LET it == CHOOSE it \in S : TRUE
         IN  SetToBag({ItemRow(it)}) (+) BagOfItems(S \ {it})

SortedInputs ==
    /\ Complete(L0, K0) /\ Complete(R0, K1)
    /\ Sorted(L0, K0) /\ Sorted(R0, K1)

\* C1: for sorted inputs whose records all have their key fields, and every
\* combination of the flags, the rows join has written when it returns are,
\* as a multiset, the rows of the relational join the flags select.
C1_RelationalJoin ==
    (pc = "done" /\ SortedInputs) => BagOf(Rows(w)) = BagOfItems(JoinItems)

\* C2: with full reads, whatever the initial capacities, the run ends with the
\* output bytes, the result and the groups of both sides that it has when the
\* windows hold the inputs whole.
WholeRun ==
    run(start(input.data0, input.data1, Whole, Whole, input.lim0, input.lim1,
              K0, K1, opts))

C2_CapacityIndependent ==
    (pc = "done" /\ input.lim0 = Whole /\ input.lim1 = Whole)
        => /\ w = WholeRun.w /\ result = WholeRun.result
           /\ seen0 = WholeRun.seen0 /\ seen1 = WholeRun.seen1

RECURSIVE Flatten(_)
Flatten(ss) == IF Len(ss) = 0 THEN << >> ELSE ss[1] \o Flatten(Tail(ss))

IsPrefix(a, b) == Len(a) <= Len(b) /\ SubSeq(b, 1, Len(a)) = a

\* C3: the records next_group has delivered are records of the input, whole
\* and in order (never an unterminated piece read before the end of the
\* input), and a run that drains both inputs has delivered every record.
C3_NoProvisionalRecord ==
    /\ IsPrefix(Flatten(seen0), L0)
    /\ IsPrefix(Flatten(seen1), R0)
    /\ (pc = "done" /\ result = Ok /\ opts.show_left /\ opts.show_right)
           => (Flatten(seen0) = L0 /\ Flatten(seen1) = R0)

\* the positions of the records of recs that have the key k
WithKey(recs, key_idx, k) ==
    { i \in 1..Len(recs) : KeyOf(recs[i], key_idx) = << k >> }

\* the positions of the rows written whose first field is k
RowsWithKey(k) ==
    { n \in 1..Len(Rows(w)) : SplitOn(Rows(w)[n], COMMA)[1] = k }

\* C4: for sorted inputs and show_both, a key that a left records and b right
\* records have is the key of exactly a * b rows, one for each pair of them.
C4_CartesianProduct ==
    (pc = "done" /\ SortedInputs /\ opts.show_both)
        => \A k \in KeyFields :
             LET A == WithKey(L0, K0, k)
                 B == WithKey(R0, K1, k)
             IN  (A # {} /\ B # {})
                   => /\ Cardinality(RowsWithKey(k)) = Cardinality(A) * Cardinality(B)
                      /\ \A i \in A, j \in B :
                           \E n \in RowsWithKey(k) :
                             Rows(w)[n] = RowOfBoth(L0[i], R0[j], K0, K1)

\* the rows of an unmatched group, in the order of its records
RECURSIVE SingleRows(_, _)
SingleRows(g, key_idx) ==
    IF Len(g) = 0 THEN << >>
    ELSE << RowOf(g[1], key_idx) >> \o SingleRows(Tail(g), key_idx)

\* the rows of the left record l with the records of the right group h
RECURSIVE PairRows(_, _)
PairRows(l, h) ==
    IF Len(h) = 0 THEN << >>
    ELSE << RowOfBoth(l, h[1], K0, K1) >> \o PairRows(l, Tail(h))

\* the rows of a matched pair of groups: left record by left record, and
\* for each left record right record by right record
RECURSIVE BothRows(_, _)
BothRows(g, h) ==
    IF Len(g) = 0 THEN << >>
    ELSE PairRows(g[1], h) \o BothRows(Tail(g), h)

\* the rows of the groups gs0 and gs1 merged in ascending key order
RECURSIVE MergeRows(_, _)
MergeRows(gs0, gs1) ==
    LET left == IF opts.show_left THEN SingleRows(gs0[1], K0) ELSE << >>
        right == IF opts.show_right THEN SingleRows(gs1[1], K1) ELSE << >>
    IN  IF Len(gs0) = 0 /\ Len(gs1) = 0 THEN << >>
        ELSE IF Len(gs1) = 0 THEN left \o MergeRows(Tail(gs0), gs1)
        ELSE IF Len(gs0) = 0 THEN right \o MergeRows(gs0, Tail(gs1))
        ELSE LET c == CmpKeys(KeyOf(gs0[1][1], K0), KeyOf(gs1[1][1], K1))
             IN  IF c = Less THEN left \o MergeRows(Tail(gs0), gs1)
                 ELSE IF c = Greater THEN right \o MergeRows(gs0, Tail(gs1))
                 ELSE (IF opts.show_both THEN BothRows(gs0[1], gs1[1]) ELSE << >>)
                      \o MergeRows(Tail(gs0), Tail(gs1))

\* C5: the rows written are, in this order, the rows of the groups the two
\* next_group have returned, merged in ascending key order: a matched pair of
\* groups gives its rows left record by left record and, for one left record,
\* right record by right record; an unmatched group gives its rows in the
\* order of its records.  While the run goes on the rows written are the
\* first of them, and a run that returns Ok has written them all.
C5_RowOrder ==
    /\ IsPrefix(Rows(w), MergeRows(seen0, seen1))
    /\ (pc = "done" /\ result = Ok) => Rows(w) = MergeRows(seen0, seen1)

\* a run has ended well after a matched pair of groups of two records each
\* gave its four rows
C5_Witness ==
    /\ pc = "done" /\ result = Ok /\ opts.show_both
    /\ \E i \in 1..Len(seen0), j \in 1..Len(seen1) :
          /\ Len(seen0[i]) = 2 /\ Len(seen1[j]) = 2
          /\ KeyOf(seen0[i][1], K0) = KeyOf(seen1[j][1], K1)
          /\ Len(seen0[i][1]) = 2 /\ Len(seen0[i][2]) = 2
          /\ Len(seen1[j][1]) = 2 /\ Len(seen1[j][2]) = 2
    /\ Len(Rows(w)) >= 4

\* the run of the same options on the inputs d0 and d1
RunOn(d0, d1) ==
    run(start(d0, d1, input.cap0, input.cap1, input.lim0, input.lim1, K0, K1, opts))

\* the run r ended as this one has
SameAs(r) ==
    /\ w = r.w /\ result = r.result
    /\ seen0 = r.seen0 /\ seen1 = r.seen1

Unterminated(d) == Len(d) > 0 /\ d[Len(d)] # NL

RECURSIVE GroupsOf(_, _)
GroupsOf(recs, key_idx) ==
    IF Len(recs) = 0 THEN << >>
    ELSE LET rest == GroupsOf(Tail(recs), key_idx)
         IN  IF Len(rest) > 0
                /\ KeyOf(rest[1][1], key_idx) = KeyOf(recs[1], key_idx)
             THEN << << recs[1] >> \o rest[1] >> \o Tail(rest)
             ELSE << << recs[1] >> >> \o rest

\* C10: on a sorted input the groups next_group returns are, in order, the
\* maximal runs of consecutive records with equal keys; a run that drains both
\* inputs has returned them all.
C10_MaximalRuns ==
    /\ (Complete(L0, K0) /\ Sorted(L0, K0)) => IsPrefix(seen0, GroupsOf(L0, K0))
    /\ (Complete(R0, K1) /\ Sorted(R0, K1)) => IsPrefix(seen1, GroupsOf(R0, K1))
    /\ (pc = "done" /\ result = Ok /\ opts.show_left /\ opts.show_right)
           => (seen0 = GroupsOf(L0, K0) /\ seen1 = GroupsOf(R0, K1))

\* the positions of the records whose key is less than the key of the record
\* before them
Descents(recs, key_idx) ==
    { i \in 2..Len(recs) :
        CmpKeys(KeyOf(recs[i], key_idx), KeyOf(recs[i - 1], key_idx)) = Less }

\* the first of them
FirstDescent(recs, key_idx) ==
    CHOOSE i \in Descents(recs, key_idx) : \A j \in Descents(recs, key_idx) : i <= j

\* "the record number {} has the key with lower value than the preceding record"
IsUnsorted == result.kind = "err" /\ result.msg = "unsorted"

WholeWindows ==
    /\ input.cap0 = Whole /\ input.cap1 = Whole
    /\ input.lim0 = Whole /\ input.lim1 = Whole

\* C6 (as claimed), on runs whose windows hold the inputs whole: whatever the
\* flags and the other input, a run on an input with a record whose key is less
\* than the key of the record before it returns the Unsorted error.
C6_AlwaysUnsorted ==
    (pc = "done" /\ WholeWindows
       /\ (Descents(L0, K0) # {} \/ Descents(R0, K1) # {})) => IsUnsorted

\* C6 (amended): next_group never returns a group that holds a record whose
\* key is less than the key of the record before it, or a later record, and
\* never goes past that record, so that no row of them is written.
C6_NothingPastDescent ==
    /\ Descents(L0, K0) # {}
         => /\ Len(Flatten(seen0)) < FirstDescent(L0, K0)
            /\ group0.rec_count < FirstDescent(L0, K0)
    /\ Descents(R0, K1) # {}
         => /\ Len(Flatten(seen1)) < FirstDescent(R0, K1)
            /\ group1.rec_count < FirstDescent(R0, K1)

\* the left input's third record has a lower key than its second; the rows of
\* the first group were written and the run returned the Unsorted error for it
C6_Witness ==
    /\ pc = "done" /\ IsUnsorted /\ result.label = "left input"
    /\ Descents(L0, K0) = {3} /\ result.n = 3
    /\ Len(seen0) = 1 /\ Len(Rows(w)) >= 1

ShortRecord == ~Complete(L0, K0) \/ ~Complete(R0, K1)

AllFlags == opts.show_left /\ opts.show_right /\ opts.show_both

\* C7: a run on inputs with a record that has fewer fields than the key needs
\* never ends in a panic, and with all flags set, when join reads both inputs
\* to their ends, it fails: with the "less fields" error, unless it is the
\* Unsorted error.
C7_KeyIndexOutOfRange ==
    (pc = "done" /\ ShortRecord)
        => /\ result # Panicked
           /\ AllFlags => (result.kind = "err" /\ result.msg \in {"less_fields", "unsorted"})

\* C8: the number in the "less fields" error is the position, in the input the
\* error names, of a record that has fewer fields than the key needs.
C8_RecordNumber ==
    (pc = "done" /\ result.kind = "err" /\ result.msg = "less_fields")
        => LET recs == IF result.label = "left input" THEN L0 ELSE R0
               key_idx == IF result.label = "left input" THEN K0 ELSE K1
           IN  /\ result.n \in 1..Len(recs)
               /\ ~HasKey(recs[result.n], key_idx)

\* ----------------------------------------- next_group called on its own
\* csvroll/group.rs: the end of next_group's loop body when the window is
\* not full; the group is returned as it is, empty at the end of the input
csv_flush(g) ==
    [g |-> [g EXCEPT !.group = Rng(g.group.end, g.group.end)], ret |-> RetSome(g.group)]

\* csvroll/group.rs: next_group after its for loop
csv_ended(f) ==
    IF f.ret.kind # "continue" THEN [g |-> f.g, ret |-> f.ret]
    ELSE IF f.g.is_buf_full THEN [g |-> slide(f.g), ret |-> RetContinue]
    ELSE csv_flush(f.g)

\* csvroll/group.rs: one pass of next_group's loop, whose for loop is the
\* one of group_zerocopy.rs without the record count
csv_next_group_pass(g) == csv_ended(for_records(g, 0))

\* the two implementations of Group
Groups == { "group_zerocopy", "csvroll" }

\* the most calls of next_group a test makes
MaxCalls == 5

\* what a call of next_group returned, as join's g0 holds it
returned(ret) == IF ret.kind = "some" THEN Some(ret.range) ELSE None

\* the records of what a call returned: none for the terminal value
returned_records(groups, g, ret) ==
    IF ret.kind = "some"
    THEN Append(groups, group_records(output(g.parser), ret.range))
    ELSE Append(groups, << >>)

\* test_group: for w in want { let recs = group.next_group().unwrap(); ... }
\* with r what one pass of the loop of next_group left
test_group_got(st, r) ==
    IF r.ret.kind = "continue" THEN [st EXCEPT !.group0 = r.g]
    ELSE IF r.ret.kind \in {"some", "none"}
    THEN [st EXCEPT !.group0 = r.g, !.g0 = returned(r.ret),
                    !.seen0 = returned_records(st.seen0, r.g, r.ret)]
    ELSE [st EXCEPT !.group0 = r.g, !.pc = "done",
                    !.result = Res("err", "", r.ret.kind, r.ret.n)]

test_group_next(st) ==
    IF st.input.group = "csvroll"
    THEN test_group_got(st, csv_next_group_pass(st.group0))
    ELSE test_group_got(st, next_group_pass(st.group0))

\* test_group: Group::init(parser, key_idx).unwrap()
test_group_init(st) ==
    [st EXCEPT !.group0 = init(st.group0.parser, st.group0.key_idx),
               !.pc = "next_group"]

\* the state test_group starts from, for one of the two implementations
test_group_start(data, cap, lim, key, which) ==
    [start(data, << >>, cap, cap, lim, lim, key, key,
           [show_left |-> FALSE, show_right |-> FALSE, show_both |-> FALSE])
        EXCEPT !.input = [data0 |-> data, cap0 |-> cap, lim0 |-> lim, key0 |-> key,
                          group |-> which],
               !.pc = "test_group"]

InitGroup ==
    \E d \in Inputs(MaxRecs), c \in Caps, l \in Lims, g \in Groups :
        Is(test_group_start(d, c, l, << 0 >>, g))

TestGroupInit == pc = "test_group" /\ Becomes(test_group_init(State))

TestGroupNext ==
    pc = "next_group" /\ Len(seen0) < MaxCalls /\ Becomes(test_group_next(State))

NextGroup == TestGroupInit \/ TestGroupNext

SpecGroup == InitGroup /\ [][NextGroup]_vars

\* C11: every range next_group returns as a group is non-empty (None is the
\* terminal value of group_zerocopy.rs, the empty range the one of
\* csvroll/group.rs), and once the terminal value has been returned every
\* later call returns it again, without an error.
C11_TerminalValue ==
    pc \in {"next_group", "done"} =>
        /\ (input.group = "group_zerocopy" /\ g0 # None) => g0[1].start < g0[1].end
        /\ \A i \in 1..Len(seen0) :
              seen0[i] = << >> =>
                  /\ result = Running
                  /\ \A j \in i..Len(seen0) : seen0[j] = << >>

\* C11: a call after the terminal value, which followed a group
C11_Witness ==
    /\ pc = "next_group" /\ input.group = "group_zerocopy"
    /\ Len(seen0) >= 3 /\ seen0[1] # << >>
    /\ seen0[Len(seen0) - 1] = << >> /\ seen0[Len(seen0)] = << >>

\* ------------------------------------------- the printer called on its own
\* test_print prints ranges of the records of one buffer.  Here the buffer
\* and its index are what Parser::parse gives for an input whose fields are
\* told apart by their byte: field f of record i is the byte FieldByte(i, f),
\* or empty.
PrintFields == 3
FieldByte(i, f) == << 48 + PrintFields * (i - 1) + (f - 1) >>

\* a record of nf fields, the field number none of them empty (0: no field)
PrintRecSpecs == { r \in [nf : 1..PrintFields, none : 0..PrintFields] : r.none <= r.nf }

PrintRecords(spec) ==
    [i \in 1..Len(spec) |->
        [f \in 1..spec[i].nf |-> IF f = spec[i].none THEN << >> ELSE FieldByte(i, f)]]

PrintInputs ==
    { BytesOf(PrintRecords(s), TRUE) : s \in UNION { [1..m -> PrintRecSpecs] : m \in 1..MaxRecs } }

\* the key lists without duplicates, ascending or not
PrintKeys ==
    { << k >> : k \in 0..(PrintFields - 1) }
    \cup { s \in [1..2 -> 0..(PrintFields - 1)] : s[1] # s[2] }

\* the ranges a..b of the records of an index
PrintRanges(records) ==
    { r \in [start : 0..Len(records), end : 0..Len(records)] : r.start <= r.end }

\* test_print: the buffer, the index and KeyFirst::from_parts
test_print_start(data, key0, key1) ==
    [start(data, << >>, Whole, Whole, Whole, Whole, key0, key1,
           [show_left |-> TRUE, show_right |-> TRUE, show_both |-> TRUE])
        EXCEPT !.pc = "test_print"]

\* the index of the buffer, as Parser::parse builds it
test_print_parse(st) ==
    [st EXCEPT !.group0 = init(st.group0.parser, st.group0.key_idx), !.pc = "print"]

\* what a print call of test_print leaves: the bytes written, the ranges it
\* was given, which of the three calls it was (Less: print_left, Greater:
\* print_right, Equal: print_both), and whether it returned
test_printed(st, print0, print1, which, out) ==
    [st EXCEPT !.w = out.bytes, !.g0 = print0, !.g1 = print1, !.ord = which,
               !.pc = "printed", !.result = IF out.panic THEN Panicked ELSE Ok]

test_print_left(st, o, print) ==
    test_printed(st, Some(print), None, Less,
                 print_left(st.p, o.buf, o.idx.fields, o.idx.records, print))

test_print_right(st, o, print) ==
    test_printed(st, None, Some(print), Greater,
                 print_right(st.p, o.buf, o.idx.fields, o.idx.records, print))

test_print_both(st, o, print0, print1) ==
    test_printed(st, Some(print0), Some(print1), Equal,
                 print_both(st.p, o.buf, o.buf, o.idx.fields, o.idx.fields,
                            o.idx.records, o.idx.records, print0, print1))

InitPrint ==
    \E d \in PrintInputs, k0 \in PrintKeys, k1 \in PrintKeys :
        Is(test_print_start(d, k0, k1))

TestPrintParse == pc = "test_print" /\ Becomes(test_print_parse(State))

TestPrintLeft ==
    /\ pc = "print"
    /\ \E print \in PrintRanges(group0.parser.idx.records) :
          Becomes(test_print_left(State, output(group0.parser), print))

TestPrintRight ==
    /\ pc = "print"
    /\ \E print \in PrintRanges(group0.parser.idx.records) :
          Becomes(test_print_right(State, output(group0.parser), print))

TestPrintBoth ==
    /\ pc = "print"
    /\ \E print0 \in PrintRanges(group0.parser.idx.records),
          print1 \in PrintRanges(group0.parser.idx.records) :
          Becomes(test_print_both(State, output(group0.parser), print0, print1))

NextPrint == TestPrintParse \/ TestPrintLeft \/ TestPrintRight \/ TestPrintBoth

SpecPrint == InitPrint /\ [][NextPrint]_vars

\* the rows, each ended by the output terminator
RECURSIVE Lines(_)
Lines(rows) == IF Len(rows) = 0 THEN << >> ELSE rows[1] \o << NL >> \o Lines(Tail(rows))

\* the records of the range print of the input
InRange(recs, print) == SubSeq(recs, print.start + 1, print.end)

\* C12: every row print_left and print_right write is the record's key
\* fields in the order of the key list, then its other fields in their
\* original order, separated by the delimiter and ended by the terminator;
\* every row print_both writes is the left record's key fields, its other
\* fields, then the right record's other fields; for every key list without
\* duplicates, ascending or not, and records that have the key fields.
C12_RowFormat ==
    pc = "printed" =>
        /\ (ord = Less /\ Complete(InRange(L0, g0[1]), K0))
              => /\ result = Ok
                 /\ w = Lines(SingleRows(InRange(L0, g0[1]), K0))
        /\ (ord = Greater /\ Complete(InRange(L0, g1[1]), K1))
              => /\ result = Ok
                 /\ w = Lines(SingleRows(InRange(L0, g1[1]), K1))
        /\ (ord = Equal /\ Complete(InRange(L0, g0[1]), K0)
                        /\ Complete(InRange(L0, g1[1]), K1))
              => /\ result = Ok
                 /\ w = Lines(BothRows(InRange(L0, g0[1]), InRange(L0, g1[1])))

\* C13: in print_both every row written for a left record starts with that
\* record's own key fields, for every left record of the printed range, also
\* when the left records of the range have different keys and when key
\* fields are empty.
C13_OwnKeyPrefix ==
    (pc = "printed" /\ ord = Equal /\ Complete(InRange(L0, g0[1]), K0)
                    /\ Complete(InRange(L0, g1[1]), K1))
        => /\ Len(Rows(w)) = (g0[1].end - g0[1].start) * (g1[1].end - g1[1].start)
           /\ \A i \in 1..(g0[1].end - g0[1].start), j \in 1..(g1[1].end - g1[1].start) :
                 IsPrefix(JoinFields(KeyOf(InRange(L0, g0[1])[i], K0), COMMA),
                          Rows(w)[(i - 1) * (g1[1].end - g1[1].start) + j])

\* ------------------------------------------- the example of join's comment
\* let data0 = "a,a,0\na,b,1"; let data1 = "a,b,2\na,c,3";
DocData0 == << 97, 44, 97, 44, 48, 10, 97, 44, 98, 44, 49 >>
DocData1 == << 97, 44, 98, 44, 50, 10, 97, 44, 99, 44, 51 >>

\* the key of the example: the second field, or keys(&[1,0][..])
DocKeys == { << 1 >>, << 1, 0 >> }

\* capacities that hold the first record of the inputs
DocCaps == { 6, 8, 11, 16, Whole }

InitDoc ==
    \E c \in DocCaps, k \in DocKeys, o \in Opts :
        Is(start(DocData0, DocData1, c, c, Whole, Whole, k, k, o))

SpecDoc == InitDoc /\ [][Next]_vars

\* "a,a,0\nb,a,1,2\nc,a,3\n"
DocOut == << 97, 44, 97, 44, 48, 10, 98, 44, 97, 44, 49, 44, 50, 10, 99, 44, 97, 44, 51, 10 >>

\* "a,a,0\nb,a,1,a,2\nc,a,3\n"
DocOutSecondField ==
    << 97, 44, 97, 44, 48, 10, 98, 44, 97, 44, 49, 44, 97, 44, 50, 10, 99, 44, 97, 44, 51, 10 >>

\* C14 as the claim has it: keyed on the second field on both sides, with all
\* three flags set, the join of "a,a,0\na,b,1" and "a,b,2\na,c,3" writes
\* exactly "a,a,0\nb,a,1,2\nc,a,3\n".
C14_DocExample ==
    (pc = "done" /\ AllFlags /\ K0 = << 1 >>) => (result = Ok /\ w = DocOut)

\* C14: keyed on the second field on both sides, with all three flags set,
\* the join of "a,a,0\na,b,1" and "a,b,2\na,c,3" writes exactly
\* "a,a,0\nb,a,1,a,2\nc,a,3\n" (the first field of the right record is not a
\* key field and is written); keyed on the second and the first field it
\* writes "a,a,0\nb,a,1,2\nc,a,3\n".
C14_DocExampleRows ==
    (pc = "done" /\ AllFlags)
        => /\ result = Ok
           /\ K0 = << 1 >> => w = DocOutSecondField
           /\ K0 = << 1, 0 >> => w = DocOut

\* C14: the run of the example keyed on the second field has returned
C14_Witness ==
    pc = "done" /\ AllFlags /\ K0 = << 1 >> /\ result = Ok /\ Len(w) > 0

\* ------------------------------------------------------------------- head
\* FirstRec (csv::basic), as test_header and run() of main.rs use it:
\* FirstRec::init(parser) parses the first window
first_rec_init(parser) == [parser |-> parse(parser).parser]

\* first_rec.is_present(): the window's index has a first record
is_present(first_rec) == Len(first_rec.parser.idx.records) > 0

\* first_rec.buf_index()
first_rec_buf_index(first_rec) == output(first_rec.parser)

\* what head returns after a print call
head_printed(st, out) ==
    [st EXCEPT !.w = st.w \o out.bytes, !.pc = "done",
               !.result = IF out.panic THEN Panicked ELSE Ok]

\* head, with fr0 and fr1 what is_present() gave and o0 and o1 what
\* buf_index() gives
head_present(st, fr0, fr1, o0, o1) ==
    IF st.opts.show_both \/ (st.opts.show_left /\ st.opts.show_right)
    THEN IF fr0 /\ fr1
         THEN head_printed(st, print_both(st.p, o0.buf, o1.buf, o0.idx.fields,
                                          o1.idx.fields, o0.idx.records,
                                          o1.idx.records, Rng(0, 1), Rng(0, 1)))
         ELSE [st EXCEPT !.pc = "done", !.result = Ok]
    ELSE IF st.opts.show_left
    THEN IF fr0
         THEN head_printed(st, print_left(st.p, o0.buf, o0.idx.fields,
                                          o0.idx.records, Rng(0, 1)))
         ELSE [st EXCEPT !.pc = "done", !.result = Ok]
    ELSE IF fr1
    THEN head_printed(st, print_right(st.p, o1.buf, o1.idx.fields,
                                      o1.idx.records, Rng(0, 1)))
    ELSE [st EXCEPT !.pc = "done", !.result = Ok]

\* head(&mut first_rec0, &mut first_rec1, &mut out, printer, opts); the
\* FirstRec of a side is the parser of its group
head(st) ==
    head_present(st, is_present(st.group0), is_present(st.group1),
                 first_rec_buf_index(st.group0), first_rec_buf_index(st.group1))

\* FirstRec::init(parser0).unwrap(); FirstRec::init(parser1).unwrap()
head_init(st) ==
    [st EXCEPT !.group0.parser = first_rec_init(st.group0.parser).parser,
               !.group1.parser = first_rec_init(st.group1.parser).parser,
               !.pc = "head"]

\* the key of test_header, and the second field
HeadKeys == { << 0 >>, << 1 >> }

InitHead ==
    \E d0 \in Inputs(MaxRecs), d1 \in Inputs(MaxRecs), k \in HeadKeys, o \in Opts :
        Is([start(d0, d1, Whole, Whole, Whole, Whole, k, k, o) EXCEPT !.pc = "first_rec"])

FirstRecInit == pc = "first_rec" /\ Becomes(head_init(State))

HeadPrint == pc = "head" /\ Becomes(head(State))

NextHead == FirstRecInit \/ HeadPrint

SpecHead == InitHead /\ [][NextHead]_vars

\* C15: head writes exactly one header row: with show_both, or with
\* show_left and show_right, the left header key first followed by the other
\* fields of the right header; otherwise with show_left the left header
\* alone; otherwise the right header alone.
C15_OneHeaderRow ==
    pc = "done" =>
        /\ result = Ok
        /\ Len(Rows(w)) = 1
        /\ Len(L0) > 0 /\ Len(R0) > 0 /\ HasKey(L0[1], K0) /\ HasKey(R0[1], K1)
              => w = Lines(<< IF opts.show_both \/ (opts.show_left /\ opts.show_right)
                              THEN RowOfBoth(L0[1], R0[1], K0, K1)
                              ELSE IF opts.show_left THEN RowOf(L0[1], K0)
                              ELSE RowOf(R0[1], K1) >>)

\* ------------------------------------------- the RollBuf called on its own
\* test_rollbuf_no_extend and test_rollbuf_extend call consume, roll and
\* fill_buf on a RollBuf over the bytes 1..7; here the calls come in any
\* order.  The RollBuf is the one of the left parser.
RbStream(n) == [i \in 1..n |-> i]

\* the source streams: the one of the tests, a shorter one, an empty one
RbStreams == { RbStream(0), RbStream(2), RbStream(7) }

\* the capacity of the tests, a smaller one, and one whose double is over
\* max_cap
RbCaps == { 1, 3, (MAX_CAP \div 2) + 1 }

\* the most bytes one consume call is given
MaxConsume == 4

\* the largest small capacity roll is let grow from
MaxRollCap == 12

test_rollbuf_start(data, cap, lim) ==
    [start(data, << >>, cap, cap, lim, lim, << 0 >>, << 0 >>,
           [show_left |-> FALSE, show_right |-> FALSE, show_both |-> FALSE])
        EXCEPT !.pc = "rollbuf"]

\* the state after a call on the RollBuf, b what the call left of it
test_rollbuf_called(st, call, b) == [st EXCEPT !.group0.parser.buf = b, !.pc = call]

InitRollBuf ==
    \E n \in RbStreams, c \in RbCaps, l \in Lims : Is(test_rollbuf_start(n, c, l))

\* the calls are made on a RollBuf, not on a run of join
RollBufCalls == { "rollbuf", "consume", "roll", "fill_buf" }

\* b.consume(n)
RbConsume ==
    /\ pc \in RollBufCalls
    /\ \E n \in 0..MaxConsume :
          Becomes(test_rollbuf_called(State, "consume", consume(group0.parser.buf, n)))

\* b.roll()
RbRoll ==
    /\ pc \in RollBufCalls
    /\ \/ group0.parser.buf.pos > 0
       \/ group0.parser.buf.cap <= MaxRollCap
       \/ group0.parser.buf.cap > MAX_CAP \div 2 /\ group0.parser.buf.cap <= MAX_CAP + 1
    /\ Becomes(test_rollbuf_called(State, "roll", roll(group0.parser.buf)))

\* b.fill_buf().unwrap()
RbFill ==
    /\ pc \in RollBufCalls
    /\ Becomes(test_rollbuf_called(State, "fill_buf", fill_buf(group0.parser.buf).buf))

NextRollBuf == RbConsume \/ RbRoll \/ RbFill

SpecRollBuf == InitRollBuf /\ [][NextRollBuf]_vars

\* the bytes of the source the RollBuf has not read yet
Unread == group0.parser.buf.inner.data

IsSuffix(a, b) == Len(a) <= Len(b) /\ SubSeq(b, Len(b) - Len(a) + 1, Len(b)) = a

\* C16: after any sequence of consume, roll and fill_buf calls the bytes
\* consumed so far followed by contents() are a prefix of the source stream:
\* contents() followed by the bytes not read yet is the rest of the stream;
\* consume only drops bytes from the front of contents(), roll leaves
\* contents() as it is, fill_buf only appends the next bytes of the source.
C16_NoByteLost ==
    /\ [](pc \in RollBufCalls
            => IsSuffix(contents(group0.parser.buf) \o Unread, input.data0))
    /\ [][(pc' = "consume"
            => /\ IsSuffix(contents(group0.parser.buf)', contents(group0.parser.buf))
               /\ Unread' = Unread)
          /\ (pc' = "roll"
            => /\ contents(group0.parser.buf)' = contents(group0.parser.buf)
               /\ Unread' = Unread)
          /\ (pc' = "fill_buf"
            => /\ IsPrefix(contents(group0.parser.buf), contents(group0.parser.buf)')
               /\ contents(group0.parser.buf)' \o Unread'
                    = contents(group0.parser.buf) \o Unread)]_vars

\* C16: bytes have been consumed, the buffer has grown and been filled to
\* the end of the source, and holds bytes not consumed yet
C16_Witness ==
    /\ pc = "fill_buf" /\ Unread = << >>
    /\ group0.parser.buf.cap > input.cap0
    /\ Len(contents(group0.parser.buf)) \in 1..(Len(input.data0) - 1)

\* C17: roll() with pos > 0 moves W[pos..end] to the front, sets pos = 0 and
\* leaves the capacity as it is; roll() with pos = 0 grows the capacity only
\* if the window was full, and then to twice the old capacity limited by
\* max_cap; contents() is the same before and after.
C17_Roll ==
    [][pc' = "roll"
        => /\ contents(group0.parser.buf)' = contents(group0.parser.buf)
           /\ group0.parser.buf'.pos = 0
           /\ group0.parser.buf.pos > 0
                 => group0.parser.buf'.cap = group0.parser.buf.cap
           /\ group0.parser.buf.pos = 0
                 => group0.parser.buf'.cap
                      = IF group0.parser.buf.end = group0.parser.buf.cap
                        THEN Min(2 * group0.parser.buf.cap, MAX_CAP)
                        ELSE group0.parser.buf.cap]_vars

\* ------------------------------------------------------- Args and main
\* Result<T, Box<Error>> of Args::parse and validate_key
ArgsOk(v) == [ok |-> TRUE, v |-> v, msg |-> "", n |-> 0]
ArgsErr(msg, n) == [ok |-> FALSE, v |-> << >>, msg |-> msg, n |-> n]

\* s.parse::<usize>() of the words a key list is made of here
parse_usize(s) ==
    CASE s = "0" -> Some(0)
      [] s = "1" -> Some(1)
      [] s = "2" -> Some(2)
      [] OTHER -> None

\* validate_key: the first and_then, from the x-th word on (x from 0)
RECURSIVE validate_parsed(_, _)
validate_parsed(k, x) ==
    IF x >= Len(k) THEN ArgsOk(<< >>)
    ELSE IF parse_usize(k[x + 1]) = None THEN ArgsErr("could not parse the key parameter", x + 1)
    ELSE IF ~validate_parsed(k, x + 1).ok THEN validate_parsed(k, x + 1)
    ELSE ArgsOk(<< parse_usize(k[x + 1])[1] >> \o validate_parsed(k, x + 1).v)

\* validate_key: the second and_then
validate_numbering(r) ==
    IF ~r.ok THEN r
    ELSE IF \E i \in 1..Len(r.v) : r.v[i] < 1
    THEN ArgsErr("the key fields must use 1-based numbering", 0)
    ELSE ArgsOk([i \in 1..Len(r.v) |-> r.v[i] - 1])

validate_key(k) == validate_numbering(validate_parsed(k, 0))

\* Args::parse after the three key lists: left_key.len() != right_key.len()
args_keys(left_key, right_key) ==
    IF ~left_key.ok THEN left_key
    ELSE IF ~right_key.ok THEN right_key
    ELSE IF Len(left_key.v) # Len(right_key.v)
    THEN ArgsErr("the left key and the right key parameters have different lenght", 0)
    ELSE ArgsOk([left_key |-> left_key.v, right_key |-> right_key.v])

\* Args::parse: left_key and right_key, key what the --key list gave
args_sides(a, key) ==
    IF ~key.ok THEN key
    ELSE args_keys(IF a.left_key = None THEN key ELSE validate_key(a.left_key[1]),
                   IF a.right_key = None THEN key ELSE validate_key(a.right_key[1]))

\* Args::parse: the key lists of the command line a
args_parse(a) ==
    args_sides(a, IF a.key = None THEN ArgsOk(<< 0 >>) ELSE validate_key(a.key[1]))

\* show_both true only when -b is given (the mutant of args_opts for C23)
args_opts_given(a) ==
    [show_left |-> a.show_left, show_right |-> a.show_right, show_both |-> a.show_both]

\* let show_both = !matches.is_present("show_any") || matches.is_present("show_both");
args_opts(a) ==
    [show_left |-> a.show_left, show_right |-> a.show_right,
     show_both |-> ~(a.show_left \/ a.show_right \/ a.show_both) \/ a.show_both]

\* Args::parse().and_then(run) up to run: an error of Args::parse ends the
\* run; otherwise run builds the buffers, the parsers and the printer from
\* the key lists r.v
main_parsed(st, r) ==
    IF ~r.ok
    THEN [st EXCEPT !.pc = "done", !.result = Res("err", "", r.msg, r.n)]
    ELSE [start(st.input.data0, st.input.data1, st.input.cap0, st.input.cap1,
                st.input.lim0, st.input.lim1, r.v.left_key, r.v.right_key,
                args_opts(st.input.args))
            EXCEPT !.input = st.input, !.pc = "run"]

main_args(st) == main_parsed(st, args_parse(st.input.args))

\* run: let file0 = File::open(args.left_path())?; let file1 = ...
main_open(st) ==
    IF ~(st.input.file0 /\ st.input.file1)
    THEN [st EXCEPT !.pc = "done", !.result = Res("err", "", "No such file or directory", 0)]
    ELSE [st EXCEPT !.pc = "init"]

\* main: what the process leaves for the result res of
\* Args::parse().and_then(run): the lines main writes with eprintln!, and
\* the exit code (main returns normally after either arm; a panic ends the
\* process with the code 101)
main(res) ==
    [stderr |-> IF res.kind = "err" THEN 1 ELSE 0,
     code |-> IF res.kind = "panic" THEN 101 ELSE 0]

\* the words of a key list on the command line
KeyWords == { "0", "1", "2", "x" }
MaxKeyLen == 2
KeyArgs == UNION { [1..n -> KeyWords] : n \in 1..MaxKeyLen }

\* the command lines: --key or none, or --left-key with --right-key
MainArgs ==
    [key : { None } \cup { Some(k) : k \in KeyArgs }, left_key : { None }, right_key : { None },
     show_left : BOOLEAN, show_right : { FALSE }, show_both : { FALSE }]
    \cup [key : { None }, left_key : { Some(k) : k \in KeyArgs },
          right_key : { Some(k) : k \in KeyArgs },
          show_left : { TRUE }, show_right : { TRUE }, show_both : { TRUE }]

main_start(a, file0, file1, data0, data1) ==
    [start(data0, data1, Whole, Whole, Whole, Whole, << 0 >>, << 0 >>, args_opts(a))
        EXCEPT !.input = [args |-> a, file0 |-> file0, file1 |-> file1,
                          data0 |-> data0, data1 |-> data1, cap0 |-> Whole,
                          cap1 |-> Whole, lim0 |-> Whole, lim1 |-> Whole],
               !.pc = "main"]

InitMain ==
    \E a \in MainArgs, f0 \in BOOLEAN, f1 \in BOOLEAN,
       d0 \in Inputs(1), d1 \in Inputs(1) :
        /\ (f0 \/ f1)
        /\ Is(main_start(a, f0, f1, d0, d1))

\* Args::parse()
MainParse == pc = "main" /\ Becomes(main_args(State))

\* run up to the two File::open
MainOpen == pc = "run" /\ Becomes(main_open(State))

NextMain == MainParse \/ MainOpen \/ Next

SpecMain == InitMain /\ [][NextMain]_vars

\* C18: the exit code is 0 exactly when the run succeeded; when argument
\* parsing, file opening or join returns an error, one diagnostic line is
\* written to the error sink and the exit code is not 0.
C18_ExitCode ==
    pc = "done" =>
        /\ (main(result).code = 0) <=> (result = Ok)
        /\ result.kind = "err" => (main(result).stderr = 1 /\ main(result).code # 0)

\* a number occurs twice in a key list of the command line
HasDuplicate(k) == \E i, j \in 1..Len(k) : i # j /\ k[i] = k[j]
DuplicateKey(a) ==
    \/ a.key # None /\ HasDuplicate(a.key[1])
    \/ a.left_key # None /\ HasDuplicate(a.left_key[1])
    \/ a.right_key # None /\ HasDuplicate(a.right_key[1])

\* C19: when a key list of the command line holds the same field index
\* twice, Args::parse returns an error before any input is opened or read:
\* the run ends there, and the key list reaches no group iterator and no
\* printer.
C19_DuplicateKeyRejected ==
    (pc # "main" /\ DuplicateKey(input.args))
        => (pc = "done" /\ result.kind = "err"
            /\ group0.parser.parsed = 0 /\ group1.parser.parsed = 0 /\ w = << >>)

\* C20: every error that comes from the reading, the indexing or the
\* grouping of one input, a record too short for the key found when the keys
\* of the two groups are compared included, is reported with a label naming
\* that side, left or right.
C20_SideLabel ==
    (pc = "done" /\ result.kind = "err"
        /\ result.msg \in { "unsorted", "less_fields", "not_grouped" })
        => result.label \in { "left input", "right input" }

OneSideLeft == pc = "match" /\ (g0 = None) # (g1 = None)

\* the group join holds for the left side, the right side: the last one returned
LastGroup0 == seen0[Len(seen0)]
LastGroup1 == seen1[Len(seen1)]

\* the step of join's match from a state with a group of one side only: with
\* the side's flag set the rows of the group are written, in the order of its
\* records, and that side alone is advanced; without it join returns Ok at
\* once and writes nothing
DrainStep ==
    /\ result' # Panicked
    /\ IF g0 # None
       THEN IF opts.show_left
            THEN /\ Rows(w') = Rows(w) \o SingleRows(LastGroup0, K0)
                 /\ pc' = "left" /\ result' = Running /\ g1' = None
            ELSE w' = w /\ pc' = "done" /\ result' = Ok
       ELSE IF opts.show_right
            THEN /\ Rows(w') = Rows(w) \o SingleRows(LastGroup1, K1)
                 /\ pc' = "right" /\ result' = Running /\ g0' = None
            ELSE w' = w /\ pc' = "done" /\ result' = Ok

\* C22: when one side is exhausted and the other still has a group, then with
\* the flag of the remaining side set each remaining group is written as
\* unmatched, in order, and join returns Ok only when that side is exhausted
\* too; with the flag unset join returns Ok at once and writes nothing more.
\* With show_both alone and an empty input a run that ends without an error of
\* next_group ends Ok with nothing written.
C22_Drain ==
    /\ [](pc = "done" =>
            /\ result = Ok => /\ opts.show_left => g0 = None
                              /\ opts.show_right => g1 = None
            /\ (~opts.show_left /\ ~opts.show_right
                  /\ (input.data0 = << >> \/ input.data1 = << >>))
                 => \/ result = Ok /\ w = << >>
                    \/ result.kind = "err" /\ result.label # "internal")
    /\ [][OneSideLeft => DrainStep]_vars

\* ------------------------------------------------- the flags -l, -r and -b
\* JoinOptions::default()
join_options_default == [show_left |-> FALSE, show_right |-> FALSE, show_both |-> TRUE]

\* the command lines with every combination of -l, -r and -b, with and
\* without a key list
FlagArgs ==
    [key : { None, Some(<< "1" >>), Some(<< "x" >>) }, left_key : { None }, right_key : { None },
     show_left : BOOLEAN, show_right : BOOLEAN, show_both : BOOLEAN]

\* main before Args::parse: no option has been read
args_start(a, data0, data1) ==
    [main_start(a, TRUE, TRUE, data0, data1) EXCEPT !.opts = join_options_default]

InitArgs ==
    \E a \in FlagArgs, d0 \in Inputs(1), d1 \in Inputs(1) : Is(args_start(a, d0, d1))

SpecArgs == InitArgs /\ [][NextMain]_vars

\* one of -l, -r, -b is on the command line
AnyFlag == input.args.show_left \/ input.args.show_right \/ input.args.show_both

\* Args::parse has returned Ok
ArgsParsed == pc # "main" /\ args_parse(input.args).ok

\* C23: after Args::parse, with none of -l, -r, -b given show_both is true and
\* show_left and show_right are false; with at least one given each of the
\* three is true exactly when its own flag was given.
C23_ShowFlags ==
    ArgsParsed =>
        IF ~AnyFlag
        THEN opts.show_both /\ ~opts.show_left /\ ~opts.show_right
        ELSE /\ opts.show_left = input.args.show_left
             /\ opts.show_right = input.args.show_right
             /\ opts.show_both = input.args.show_both

\* C23: a run without any of the flags has written the row of a matched pair
C23_Witness ==
    /\ pc = "done" /\ result = Ok /\ ~AnyFlag
    /\ input.data0 = << 97 >> /\ input.data1 = << 97 >>
    /\ w = << 97, NL >>

\* ------------------------------------------- which iterator join advances
\* the group join holds for a side is the one that side returned last
Held0 == g0 # None => group_records(output(group0.parser), g0[1]) = LastGroup0
Held1 == g1 # None => group_records(output(group1.parser), g1[1]) = LastGroup1

\* what the comparison of the groups join holds gives: the order of the keys
\* of their first records, Less when only the left side has a group, Greater
\* when only the right side has one
Compared ==
    IF g0 # None /\ g1 # None
    THEN CmpKeys(KeyOf(LastGroup0[1], K0), KeyOf(LastGroup1[1], K1))
    ELSE IF g0 # None THEN Less ELSE Greater

\* a step of the loop of join: a call of next_group leaves the other side as
\* it is, the right input follows the left one in the same iteration only
\* after Equal, and the comparison leaves both sides as they are and selects
\* the side to advance
AdvanceStep ==
    /\ pc = "left"
         => /\ group1' = group1 /\ g1' = g1 /\ seen1' = seen1 /\ ord' = ord
            /\ pc' \in {"left", "done", IF ord = Equal THEN "right" ELSE "match"}
    /\ pc = "right"
         => /\ group0' = group0 /\ g0' = g0 /\ seen0' = seen0 /\ ord' = ord
            /\ pc' \in {"right", "done", "match"}
    /\ pc = "match"
         => /\ group0' = group0 /\ group1' = group1 /\ g0' = g0 /\ g1' = g1
            /\ pc' # "done"
                 => /\ ord' = Compared
                    /\ pc' = IF ord' = Greater THEN "right" ELSE "left"

\* C24: in each iteration of join's loop the left input is advanced only after
\* Less, Equal and at the start, the right input only after Greater, Equal and
\* at the start; the group of the side that is not advanced is kept and is
\* the group compared, so that a side is advanced past a group only after the
\* group was compared or written.
C24_Advance ==
    /\ [](/\ pc = "left" => ord \in {Less, Equal}
          /\ pc = "right" => ord \in {Greater, Equal}
          /\ pc = "match" => (Held0 /\ Held1))
    /\ [][AdvanceStep]_vars

\* C24: after Less the left input alone was advanced: join compares the second
\* group of the left input with the first group of the right input, kept
C24_Witness ==
    /\ pc = "match" /\ ord = Less /\ g0 # None /\ g1 # None
    /\ Len(seen0) = 2 /\ Len(seen1) = 1

\* ------------------------------------------- the ranges join holds are valid
\* the range g, if any, is not empty and lies inside the record index of the
\* window of the iterator grp
InIndex(g, grp) ==
    g # None => (g[1].start < g[1].end /\ g[1].end <= Len(grp.parser.idx.records))

\* the records a side has returned before its last group
Before0 == Len(Flatten(seen0)) - Len(LastGroup0)
Before1 == Len(Flatten(seen1)) - Len(LastGroup1)

\* with full reads, the range join holds for a side denotes the records of the
\* input that follow the ones that side returned before
Denotes0 ==
    (g0 # None /\ input.lim0 = Whole)
        => group_records(output(group0.parser), g0[1])
             = SubSeq(L0, Before0 + 1, Before0 + Len(LastGroup0))
Denotes1 ==
    (g1 # None /\ input.lim1 = Whole)
        => group_records(output(group1.parser), g1[1])
             = SubSeq(R0, Before1 + 1, Before1 + Len(LastGroup1))

\* between the return of a side's next_group and the next call on that side
\* the side's window and index stay as they were
WindowKept ==
    /\ pc \in {"right", "match"} => output(group0.parser)' = output(group0.parser)
    /\ pc \in {"left", "match"} => output(group1.parser)' = output(group1.parser)

\* C25: when join compares or prints, the range it holds for a side lies
\* inside the record index of that side's window and denotes the records the
\* side's most recent next_group returned, which are records of the input; the
\* same holds for the range kept for the side that is not advanced, whose
\* window does not change until that side's next call.
C25_RangesValid ==
    /\ [](/\ pc \in {"right", "match"} => (InIndex(g0, group0) /\ Held0)
          /\ pc \in {"left", "match"} => (InIndex(g1, group1) /\ Held1)
          /\ pc = "match" => (Denotes0 /\ Denotes1))
    /\ [][WindowKept]_vars

\* C25: join compares the group kept for the right side with the second
\* group of the left side, whose window has slid past the first record of
\* three since the right side's group was returned
C25_Witness ==
    /\ pc = "match" /\ ord = Less /\ g0 # None /\ g1 # None
    /\ Len(seen0) = 2 /\ Len(seen1) = 1
    /\ input.cap0 = 4 /\ input.lim0 = Whole /\ Len(L0) = 3
    /\ Len(group0.parser.idx.records) < 3

\* ------------------------------------------------ a sink that can fail
\* The sink W: io::Write takes input.room bytes; the write_all that goes past
\* them returns an error ("failed to write whole buffer") after the sink took
\* what it had room for.  Every write of the printer is w.write_all(..)? and
\* every print call of join is p.print_..(..)?, so the error ends the print
\* call and join at once: of the bytes nx.w the step would have written, the
\* sink holds the first input.room.
sink_written(st, nx) ==
    IF Len(nx.w) > st.input.room
    THEN [nx EXCEPT !.w = SubSeq(nx.w, 1, st.input.room), !.pc = "done",
                    !.result = Res("err", "", "failed to write whole buffer", 0)]
    ELSE nx

\* ord = match (&g0, &g1) { ... } of join, writing to that sink
sink_match(st) == sink_written(st, join_match(st))

\* the bytes the sink has room for
Rooms == { 0, 3, Whole }

sink_start(data0, data1, cap, room, o) ==
    [start(data0, data1, cap, cap, Whole, Whole, << 0 >>, << 0 >>, o)
        EXCEPT !.input = [data0 |-> data0, data1 |-> data1, cap0 |-> cap, cap1 |-> cap,
                          lim0 |-> Whole, lim1 |-> Whole, key0 |-> << 0 >>,
                          key1 |-> << 0 >>, room |-> room]]

\* the inputs of at most n records that end with the terminator
Terminated(n) == { BytesOf(RecordsOf(s), TRUE) : s \in SpecsUpTo(n) }

InitSink ==
    \E d0 \in Terminated(MaxRecs + 1), d1 \in Terminated(MaxRecs), r \in Rooms, o \in Opts :
        Is(sink_start(d0, d1, 4, r, o))

SinkMatch == pc = "match" /\ Becomes(sink_match(State))

NextSink == GroupInit \/ NextGroupLeft \/ NextGroupRight \/ SinkMatch

SpecSink == InitSink /\ [][NextSink]_vars

IsErr(r) == r.kind = "err"

\* what the two sources have not handed out yet
Sources == << group0.parser.buf.inner.data, group1.parser.buf.inner.data >>

\* the step in which join gets an error: an error of next_group comes with no
\* write and leaves the other side alone, an error of the sink with no read;
\* after it join has returned it
ErrorStep ==
    /\ IsPrefix(w, w')
    /\ IsErr(result) => (w' = w /\ Sources' = Sources /\ result' = result /\ pc' = "done")
    /\ (~IsErr(result) /\ IsErr(result'))
         => /\ pc' = "done"
            /\ pc = "left" => (w' = w /\ group1' = group1 /\ result'.label = "left input")
            /\ pc = "right" => (w' = w /\ group0' = group0 /\ result'.label = "right input")
            /\ pc = "match" => Sources' = Sources

\* C26: once a next_group call or a write to the sink has returned an error,
\* join has returned an error: no source is read and nothing is written from
\* then on, and what was written before stays as written.
C26_ErrorStops ==
    /\ [](IsErr(result) => pc = "done")
    /\ [][ErrorStep]_vars

\* C26: the sink failed in the middle of the second row, while the left source
\* still had bytes to hand out; the first row stays as written
C26_Witness ==
    /\ pc = "done" /\ IsErr(result) /\ result.msg = "failed to write whole buffer"
    /\ input.room = 3 /\ Len(w) = 3 /\ w[2] = NL
    /\ Sources[1] # << >>

\* C26: the first call of the right next_group failed while the left source
\* still had bytes to hand out
C26_WitnessRight ==
    /\ pc = "done" /\ IsErr(result) /\ result.label = "right input"
    /\ result.msg = "unsorted" /\ Sources[1] # << >>

\* ------------------------------------------- the Parser called on its own
\* test_parser calls parse and consume in turn on a Parser over a RollBuf;
\* here the calls come in any order.  The Parser is the one of the left
\* input.
\* the most records one consume call names
MaxConsumeRecs == 3

test_parser_start(data, cap, lim) ==
    [start(data, << >>, cap, cap, lim, lim, << 0 >>, << 0 >>,
           [show_left |-> FALSE, show_right |-> FALSE, show_both |-> FALSE])
        EXCEPT !.pc = "parser"]

\* the state after a call on the Parser, q what the call left of it
test_parser_called(st, call, q) == [st EXCEPT !.group0.parser = q, !.pc = call]

InitParser ==
    \E d \in Inputs(MaxRecs + 1), c \in Caps, l \in Lims : Is(test_parser_start(d, c, l))

\* the calls are made on a Parser, not on a run of join
ParserCalls == { "parser", "parse", "consume" }

\* parser.parse().unwrap()
PsParse ==
    /\ pc \in ParserCalls
    /\ group0.parser.buf.cap <= Whole
    /\ Becomes(test_parser_called(State, "parse", parse(group0.parser).parser))

\* parser.consume(n)
PsConsume ==
    /\ pc \in ParserCalls
    /\ \E n \in 0..MaxConsumeRecs :
          Becomes(test_parser_called(State, "consume", parser_consume(group0.parser, n)))

NextParser == PsParse \/ PsConsume

SpecParser == InitParser /\ [][NextParser]_vars

\* what output() gives before and after a step
Window == output(group0.parser)

\* the bytes of the field f of the window o
FieldBytes(o, f) == Slice(o.buf, f.start, f.end)

\* the number of fields of the first n records of the index
FieldsBefore(idx, n) == IF n = 0 THEN 0 ELSE idx.records[n]

\* where the bytes of the first n >= 1 records of the window o end: at the
\* end of the last field of the n-th, or one byte later when that byte, the
\* record's terminator, is in the window
EndsOf(o, n) ==
    { b \in { o.idx.fields[o.idx.records[n]].end, o.idx.fields[o.idx.records[n]].end + 1 } :
        b <= Len(o.buf) }

\* parse() follows consume(n), and the index holds n records or more
ParseAfterConsume(n) ==
    /\ pc = "consume" /\ pc' = "parse"
    /\ group0.parser.consumed = Some(n)
    /\ n <= Len(Window.idx.records)

\* the window and index o2 are the window and index o without the first n
\* records: the rest of the bytes, fields and records of o, the fields moved
\* by the bytes dropped and the records by the fields dropped, come first
Dropped(o, o2, n, bytes, fields) ==
    /\ IsPrefix(Slice(o.buf, bytes, Len(o.buf)), o2.buf)
    /\ Len(o2.idx.fields) >= Len(o.idx.fields) - fields
    /\ \A i \in 1..(Len(o.idx.fields) - fields) :
          /\ o2.idx.fields[i] = Rng(o.idx.fields[fields + i].start - bytes,
                                    o.idx.fields[fields + i].end - bytes)
          /\ FieldBytes(o2, o2.idx.fields[i]) = FieldBytes(o, o.idx.fields[fields + i])
    /\ Len(o2.idx.records) >= Len(o.idx.records) - n
    /\ \A i \in 1..(Len(o.idx.records) - n) :
          o2.idx.records[i] = o.idx.records[n + i] - fields

\* C27: parse() after consume(n), n > 0, of n records the index holds, removes
\* exactly those n records from the index and their bytes from the front of
\* the window; every field kept, those of an incomplete last record too, has
\* the bytes it had, its range lowered by the number of bytes dropped, and
\* every record bound is lowered by the number of fields dropped.
C27_Rebase ==
    [][\A n \in 1..MaxConsumeRecs :
          ParseAfterConsume(n)
              => \E b \in EndsOf(Window, n) :
                    Dropped(Window, Window', n, b, FieldsBefore(Window.idx, n))]_vars

\* C27: a parse after consume(1) has dropped the first record of a full window
\* that held one record and the first field of a second, incomplete one; the
\* field is now the first of the index and the record was completed
C27_Witness ==
    /\ pc = "parse" /\ group0.parser.consumed = Some(1)
    /\ input.cap0 = 4 /\ input.lim0 = Whole
    /\ input.data0 = << 97, NL, 98, COMMA, 49, NL >>
    /\ Window.buf = << 98, COMMA, 49, NL >>
    /\ Window.idx.fields[1] = Rng(0, 1)
    /\ Window.idx.records = << 2 >>

\* C28: a parse() that follows a parse() with no consume() in between drops no
\* record and no field from the index and no byte from the window.
C28_ConsumeOnce ==
    [][(pc = "parse" /\ pc' = "parse")
          => /\ IsPrefix(Window.buf, Window'.buf)
             /\ IsPrefix(Window.idx.fields, Window'.idx.fields)
             /\ IsPrefix(Window.idx.records, Window'.idx.records)]_vars

\* ------------------------------------------------ the slide of next_group
\* the fields of the record r (a range of fields) of the window o, as bytes
RecordBytes(o, r) ==
    [f \in 1..(r.end - r.start) |-> FieldBytes(o, o.idx.fields[r.start + f])]

\* the records of the window o from the n-th on (n from 0)
RecordsFrom(o, n) == group_records(o, Rng(n, Len(o.idx.records)))

\* the iterator g as the for loop of a pass of next_group leaves it, which is
\* how the slide finds it
BeforeSlide(g) == for_records(g, g.rec_count).g

\* the slide that takes the iterator g to h: the field offset is the number
\* of fields of the records before the group; first_rec, rec and group denote
\* after it what they denoted before; the records from the group's first on
\* are kept, in front of what the parse has added
SlideKeeps(g, h) ==
    /\ g.group.start <= Len(g.parser.idx.records)
    /\ g.first_rec.start = FieldsBefore(g.parser.idx, g.group.start)
    /\ h.group.end <= Len(h.parser.idx.records)
    /\ h.first_rec.end <= Len(h.parser.idx.fields)
    /\ h.rec.end <= Len(h.parser.idx.fields)
    /\ RecordBytes(output(h.parser), h.first_rec) = RecordBytes(output(g.parser), g.first_rec)
    /\ RecordBytes(output(h.parser), h.rec) = RecordBytes(output(g.parser), g.rec)
    /\ group_records(output(h.parser), h.group) = group_records(output(g.parser), g.group)
    /\ IsPrefix(RecordsFrom(output(g.parser), g.group.start), RecordsFrom(output(h.parser), 0))

\* C29: whenever next_group slides the window, the field offset first_rec.start
\* is the number of fields the parser removes for consume(group.start); after
\* the slide first_rec, rec and group denote the same records with the same
\* bytes as before, and only records before the group are removed.
C29_Slide ==
    [][/\ (pc = "left" /\ pc' = "left") => SlideKeeps(BeforeSlide(group0), group0')
       /\ (pc = "right" /\ pc' = "right") => SlideKeeps(BeforeSlide(group1), group1')]_vars

\* C29: the left window has slid past the first of three records, returned as
\* a group before, while the group that starts with the second record was
\* being accumulated
C29_Witness ==
    /\ pc = "left" /\ Len(seen0) = 1 /\ Len(L0) = 3
    /\ input.cap0 = 4 /\ input.lim0 = Whole
    /\ Len(group0.parser.idx.records) = 2
    /\ group0.group = Rng(0, 1) /\ group0.first_rec.start = 0
    /\ group0.parser.consumed = Some(1)

\* ------------------------------------------------ the index is well formed
\* the index of the window o: every field lies in the window, a field starts
\* where the one before it ends or one byte later, and the records are
\* strictly increasing bounds, positive and not above the number of fields
WellFormed(o) ==
    /\ \A i \in 1..Len(o.idx.fields) :
          /\ 0 <= o.idx.fields[i].start
          /\ o.idx.fields[i].start <= o.idx.fields[i].end
          /\ o.idx.fields[i].end <= Len(o.buf)
    /\ \A i \in 1..(Len(o.idx.fields) - 1) :
          o.idx.fields[i + 1].start - o.idx.fields[i].end \in {0, 1}
    /\ \A i \in 1..Len(o.idx.records) :
          /\ o.idx.records[i] >= 1
          /\ o.idx.records[i] <= Len(o.idx.fields)
    /\ \A i \in 1..(Len(o.idx.records) - 1) : o.idx.records[i] < o.idx.records[i + 1]

WellFormedInJoin == WellFormed(output(group0.parser)) /\ WellFormed(output(group1.parser))

\* ------------------------------------- IndexBuilder::build on a byte array
\* index_builder.rs as it stands in the source: build(buf, buf_offset, idx)
\* makes the two bitmaps and folds them into idx.  A 64-bit word is the set
\* of the positions of its set bits, a 256-bit vector the sequence of its 32
\* byte lanes.
WordBits == 64
LaneBytes == 32
\* the content of a lane that u8_to_m256i_rest loads past the end of buf
Pad == -1

\* avx::u8_to_m256i(buf, i): the 32 bytes buf[i..i + 32]
u8_to_m256i(buf, i) == [k \in 1..LaneBytes |-> buf[i + k]]

\* avx::u8_to_m256i_rest(buf, i): the bytes buf[i..], fewer than 32
u8_to_m256i_rest(buf, i) == [k \in 1..LaneBytes |-> IF i + k <= Len(buf) THEN buf[i + k] ELSE Pad]

\* mm256_movemask_epi8(mm256_cmpeq_epi8(x, y)) as u32
movemask_cmpeq(x, y) == { k \in 0..(LaneBytes - 1) : x[k + 1] = y }

\* mbitmap without the shift of the second half (the mutant of mbitmap for
\* C32)
mbitmap_unshifted(x1, x2, y) == movemask_cmpeq(x1, y) \cup movemask_cmpeq(x2, y)

mbitmap(x1, x2, y) == movemask_cmpeq(x1, y) \cup { k + LaneBytes : k \in movemask_cmpeq(x2, y) }

mbitmap_partial(x, y) == movemask_cmpeq(x, y)

\* build_structural_character_bitmap: while i + 63 < b_len { ... i += 64 }
RECURSIVE bitmap_strides(_, _, _, _)
bitmap_strides(buf, i, y, b) ==
    IF i + 63 < Len(buf)
    THEN bitmap_strides(buf, i + WordBits, y,
                        Append(b, mbitmap(u8_to_m256i(buf, i),
                                          u8_to_m256i(buf, i + LaneBytes), y)))
    ELSE [i |-> i, b |-> b]

\* build_structural_character_bitmap: the three branches after the loop
bitmap_tail(buf, i, y, b) ==
    IF i + 32 < Len(buf)
    THEN Append(b, mbitmap(u8_to_m256i(buf, i), u8_to_m256i_rest(buf, i + LaneBytes), y))
    ELSE IF i + 32 = Len(buf)
    THEN Append(b, mbitmap_partial(u8_to_m256i(buf, i), y))
    ELSE IF i < Len(buf)
    THEN Append(b, mbitmap_partial(u8_to_m256i_rest(buf, i), y))
    ELSE b

\* the bitmap of one searched byte, pushed onto b
bitmap_of_strides(buf, y, s) == bitmap_tail(buf, s.i, y, s.b)

bitmap_of(buf, y, b) == bitmap_of_strides(buf, y, bitmap_strides(buf, 0, y, b))

build_structural_character_bitmap(buf, b_fs, b_rt, m_fs, m_rt) ==
    [b_fs |-> bitmap_of(buf, m_fs, b_fs), b_rt |-> bitmap_of(buf, m_rt, b_rt)]

\* u64::trailing_zeros
trailing_zeros(x) == IF x = {} THEN WordBits ELSE CHOOSE k \in x : \A j \in x : k <= j

\* bit::r(x): x with its lowest set bit cleared
bit_r(x) == x \ { trailing_zeros(x) }

\* the walk in which every structural byte ends a record (the mutant of
\* main_index_while for C33)
RECURSIVE main_index_while_all(_, _, _, _, _)
main_index_while_all(m_field_rec, m_rec, at, f_start, idx) ==
    IF m_field_rec = {} THEN [f_start |-> f_start, idx |-> idx]
    ELSE LET len == trailing_zeros(m_field_rec)
             fields == Append(idx.fields, Rng(f_start, at + len))
         IN  main_index_while_all(bit_r(m_field_rec), m_rec, at, at + len + 1,
                                  [fields |-> fields,
                                   records |-> Append(idx.records, Len(fields))])

\* build_main_index: while m_field_rec != 0 { ... }, at = buf_offset + i * 64.
\* last_f_count is idx.fields().len() throughout: it starts as that and
\* grows by one with every field pushed.
RECURSIVE main_index_while(_, _, _, _, _)
main_index_while(m_field_rec, m_rec, at, f_start, idx) ==
    IF m_field_rec = {} THEN [f_start |-> f_start, idx |-> idx]
    ELSE LET len == trailing_zeros(m_field_rec)
             fields == Append(idx.fields, Rng(f_start, at + len))
             is_rec == len = trailing_zeros(m_rec)
         IN  main_index_while(bit_r(m_field_rec),
                              IF is_rec THEN bit_r(m_rec) ELSE m_rec,
                              at, at + len + 1,
                              [fields |-> fields,
                               records |-> IF is_rec
                                           THEN Append(idx.records, Len(fields))
                                           ELSE idx.records])

\* build_main_index: for (f, r) in b_fs.iter().zip(b_rt) { ...; i += 1 }
RECURSIVE main_index_for(_, _, _, _, _)
main_index_for(b_fs, b_rt, buf_offset, i, r) ==
    IF i >= Min(Len(b_fs), Len(b_rt)) THEN [i |-> i, f_start |-> r.f_start, idx |-> r.idx]
    ELSE main_index_for(b_fs, b_rt, buf_offset, i + 1,
                        main_index_while(b_fs[i + 1] \cup b_rt[i + 1], b_rt[i + 1],
                                         buf_offset + i * WordBits,
                                         r.f_start, r.idx))

\* build_main_index: the remainder
main_index_remainder(r, buf_offset, appendix) ==
    [fields |-> Append(r.idx.fields, Rng(r.f_start, buf_offset + r.i * WordBits - appendix)),
     records |-> Append(r.idx.records, Len(r.idx.fields) + 1)]

index_build_main_index(b_fs, b_rt, buf_offset, appendix, idx) ==
    main_index_remainder(main_index_for(b_fs, b_rt, buf_offset, 0,
                                        [f_start |-> buf_offset, idx |-> idx]),
                         buf_offset, appendix)

\* IndexBuilder::build, after b_fs.clear() and b_rt.clear()
index_build_bitmaps(b, buf, buf_offset, idx) ==
    [b_fs |-> b.b_fs, b_rt |-> b.b_rt,
     idx |-> index_build_main_index(b.b_fs, b.b_rt, buf_offset,
                                    WordBits - (Len(buf) % WordBits), idx)]

\* IndexBuilder::build(buf, buf_offset, idx), ib the builder's b_fs and b_rt
index_build(ib, m_fs, m_rt, buf, buf_offset, idx) ==
    IF (Len(buf) + 63) \div 64 = 0 THEN [b_fs |-> ib.b_fs, b_rt |-> ib.b_rt, idx |-> idx]
    ELSE index_build_bitmaps(build_structural_character_bitmap(buf, << >>, << >>, m_fs, m_rt),
                             buf, buf_offset, idx)

\* ---------------------------------------- the IndexBuilder called on its own
\* test_build_structural_character_bitmap and test_build_main_index hand the
\* builder byte arrays and windows; here build is called once on a byte
\* array whose structural bytes sit at the ends of the 32-byte lanes and of
\* the 64-byte words.  result holds the builder's b_fs and b_rt and the
\* idx that build was handed.
\* the most 64-bit words a bitmap has
MaxWords == 2
\* the most structural bytes of an array
MaxMarks == 2

\* the lengths around the lane and the word boundaries
IxLens == {0} \cup { WordBits * wd + d : wd \in 0..(MaxWords - 1), d \in {1, 31, 32, 33, 63, 64} }

\* where a structural byte may sit in an array of n bytes
IxMarks(n) == { m \in {0, 1, 31, 32, 63, 64, n - 2, n - 1} : 0 <= m /\ m < n }

\* n bytes: rt at the positions of T, fs at the other ones of M, b'a' elsewhere
IxBytes(n, M, T, fs, rt) ==
    [i \in 1..n |-> IF (i - 1) \in T THEN rt ELSE IF (i - 1) \in M THEN fs ELSE 97]

\* the separator and the terminator: two bytes, or one byte for both
IxSeps == { << COMMA, NL >>, << NL, NL >> }

\* the window build is handed: buf_offset and the index so far, as in
\* test_build_main_index (the last one ends in an incomplete record)
IxWindows ==
    { [buf_offset |-> 0, idx |-> [fields |-> << >>, records |-> << >>]],
      [buf_offset |-> 24, idx |-> [fields |-> << >>, records |-> << >>]],
      [buf_offset |-> 24, idx |-> [fields |-> << Rng(0, 15), Rng(16, 23) >>, records |-> << 2 >>]],
      [buf_offset |-> 24, idx |-> [fields |-> << Rng(0, 15), Rng(16, 23) >>, records |-> << 1 >>]] }

\* IndexBuilder::new(fs, rt), and the arguments of the call to come
test_index_start(buf, sep, win) ==
    [start(<< >>, << >>, 1, 1, 1, 1, << 0 >>, << 0 >>,
           [show_left |-> FALSE, show_right |-> FALSE, show_both |-> FALSE])
        EXCEPT !.input = [buf |-> buf, fs |-> sep[1], rt |-> sep[2],
                          buf_offset |-> win.buf_offset, idx |-> win.idx],
               !.result = [b_fs |-> << >>, b_rt |-> << >>, idx |-> win.idx],
               !.pc = "builder"]

InitIndex ==
    \E n \in IxLens, sep \in IxSeps, win \in IxWindows :
      \E M \in { X \in SUBSET IxMarks(n) : Cardinality(X) <= MaxMarks } :
        \E T \in SUBSET M : Is(test_index_start(IxBytes(n, M, T, sep[1], sep[2]), sep, win))

\* builder.build(&buf, buf_offset, &mut idx)
IxBuild ==
    /\ pc = "builder"
    /\ Becomes([State EXCEPT !.result = index_build(result, input.fs, input.rt, input.buf,
                                                    input.buf_offset, result.idx),
                             !.pc = "build"])

NextIndex == IxBuild

SpecIndex == InitIndex /\ [][NextIndex]_vars

\* build has returned
Built == pc = "build"

\* the fields build pushed, the trailing one included
NewFields == Slice(result.idx.fields, Len(input.idx.fields), Len(result.idx.fields))

\* ------------------------------------------------ the trailing field (C31)
\* C31: for every scanned byte array of length L >= 1, also when L is a
\* multiple of 64, the last field build pushes ends at buf_offset + L and
\* does not start after its end.
C31_TrailingField ==
    (Built /\ Len(input.buf) >= 1) =>
        /\ Len(NewFields) >= 1
        /\ NewFields[Len(NewFields)].end = input.buf_offset + Len(input.buf)
        /\ NewFields[Len(NewFields)].start <= NewFields[Len(NewFields)].end

\* The same for the lengths that are not a multiple of 64.
TrailingFieldOffWord ==
    (Built /\ Len(input.buf) % WordBits # 0) =>
        /\ Len(NewFields) >= 1
        /\ NewFields[Len(NewFields)].end = input.buf_offset + Len(input.buf)
        /\ NewFields[Len(NewFields)].start <= NewFields[Len(NewFields)].end

\* At a multiple of 64 the trailing field ends 64 bytes early.
TrailingFieldOnWord ==
    (Built /\ Len(input.buf) >= 1 /\ Len(input.buf) % WordBits = 0) =>
        NewFields[Len(NewFields)].end = input.buf_offset + Len(input.buf) - WordBits

\* --------------------------------------------------- the bitmap pass (C32)
\* ceil(n / 64)
WordsFor(n) == (n + WordBits - 1) \div WordBits

\* b is the bitmap of the byte y in buf
BitmapOf(b, buf, y) ==
    /\ Len(b) = WordsFor(Len(buf))
    /\ \A wd \in 0..(Len(b) - 1), k \in 0..(WordBits - 1) :
          k \in b[wd + 1] <=>
              (WordBits * wd + k < Len(buf) /\ buf[WordBits * wd + k + 1] = y)

\* C32: build_structural_character_bitmap makes ceil(L / 64) words per
\* bitmap; bit k of word w is set exactly when 64 w + k < L and byte
\* 64 w + k is the searched byte, so the bits past L are zero, whichever
\* tail branch made the last word.
C32_Bitmaps ==
    (Built /\ Len(input.buf) >= 1) =>
        /\ BitmapOf(result.b_fs, input.buf, input.fs)
        /\ BitmapOf(result.b_rt, input.buf, input.rt)

\* C32 witness: 96 bytes, the last word made by the branch for exactly 32
\* bytes left, with the last byte a terminator: bit 31 of word 1
C32_Witness ==
    /\ Built /\ Len(input.buf) = 96 /\ input.buf[96] = input.rt
    /\ 31 \in result.b_rt[2]

\* the branch for more than 32 bytes left: bit 62 of word 0
WitnessMoreThanLane ==
    /\ Built /\ Len(input.buf) = 63 /\ input.buf[63] = input.rt /\ result.b_rt[1] = {62}

\* the branch for fewer than 32 bytes left, after a full stride
WitnessLessThanLane ==
    /\ Built /\ Len(input.buf) = 65 /\ input.buf[65] = input.rt /\ result.b_rt[2] = {0}

\* ---------------------------------------------------- the merge pass (C33)
\* the fields the walk over the bitmaps pushed: all but the trailing one
WalkFields == 1..(Len(NewFields) - 1)

\* the walk pushed a field that ends at byte i of buf; is_rec tells whether
\* it closed a record there
EndsAt(i, is_rec) ==
    \E j \in WalkFields :
        /\ NewFields[j].end = input.buf_offset + i
        /\ is_rec <=> (\E r \in 1..Len(result.idx.records) :
                          result.idx.records[r] = Len(input.idx.fields) + j)

WitnessSeparatorOnly ==
    /\ Built /\ input.fs # input.rt
    /\ \E k \in 0..(WordBits - 1) : k \in result.b_fs[1] /\ k + 1 \in result.b_rt[1]

\* ------------------------------------------------------ the round trip (C34)
\* the bytes of the field f of buf, a field of the window at buf_offset
IxFieldBytes(f) == Slice(input.buf, f.start - input.buf_offset, f.end - input.buf_offset)

\* the fields of the record r of the index
IxRecordFields(idx, r) ==
    LET from == IF r = 1 THEN 0 ELSE idx.records[r - 1]
    IN  [j \in 1..(idx.records[r] - from) |-> IxFieldBytes(idx.fields[from + j])]

\* the records of the index written out: fields joined by the separator,
\* the terminator after each record
RECURSIVE Rejoin(_, _)
Rejoin(idx, r) ==
    IF r > Len(idx.records) THEN << >>
    ELSE JoinFields(IxRecordFields(idx, r), input.fs) \o << input.rt >> \o Rejoin(idx, r + 1)

\* C34: the records of the index built from B, written out, are B, with one
\* terminator added when B does not end with the terminator.
C34_RoundTrip ==
    (Built /\ Len(input.buf) >= 1 /\ Len(input.idx.fields) = 0) =>
        Rejoin(result.idx, 1) =
            (IF input.buf[Len(input.buf)] = input.rt THEN input.buf
             ELSE input.buf \o << input.rt >>)

\* Off the multiples of 64 the index writes out as B and one terminator,
\* whether B ends with the terminator or not.
RoundTripOffWord ==
    (Built /\ Len(input.buf) % WordBits # 0 /\ Len(input.idx.fields) = 0) =>
        Rejoin(result.idx, 1) = input.buf \o << input.rt >>

\* ------------------------------------------- cmp_records called on its own
\* next_group and join hand cmp_records two records of parsed windows and
\* the key lists.  Here it is called on every pair of records of one or two
\* fields, the fields being "", "a", "ab" and "b", with key lists that
\* differ in their length and name fields the records may lack.
\* the most fields of a compared record
MaxCmpFields == 2
\* the most key indices of a compared record
MaxCmpKeys == 2

CmpFieldBytes == { << >>, << 97 >>, << 97, 98 >>, << 98 >> }
CmpRecs == UNION { [1..n -> CmpFieldBytes] : n \in 1..MaxCmpFields }
CmpKeyLists == UNION { [1..n -> 0..MaxCmpFields] : n \in 1..MaxCmpKeys }

\* csvroll/group.rs: cmp_records(buf, rec_0, rec_1, key_idx), both records
\* in one window and under one key list, the error a message
csv_cmp_records_of(r) ==
    IF r.ok THEN [ok |-> TRUE, ord |-> r.ord, e |-> ""]
    ELSE [ok |-> FALSE, ord |-> r.ord,
          e |-> IF r.e = 0 THEN "The first record is shorter than key fields"
                ELSE "The second record is shorter than key fields"]

csv_cmp_records(buf, rec_0, rec_1, key_idx) ==
    csv_cmp_records_of(cmp_records(buf, buf, rec_0, rec_1, key_idx, key_idx))

\* record.rs: cmp_keys(fields, bounds, other_fields, other_bounds), the key
\* fields of a record laid end to end, bounds their ends
RECURSIVE cmp_keys(_, _, _, _, _, _)
cmp_keys(fields, bounds, other_fields, other_bounds, e0_last, e1_last) ==
    IF Len(bounds) = 0 \/ Len(other_bounds) = 0 THEN Equal
    ELSE IF cmp_bytes(Slice(fields, e0_last, bounds[1]),
                      Slice(other_fields, e1_last, other_bounds[1])) # Equal
    THEN cmp_bytes(Slice(fields, e0_last, bounds[1]),
                   Slice(other_fields, e1_last, other_bounds[1]))
    ELSE cmp_keys(fields, Tail(bounds), other_fields, Tail(other_bounds),
                  bounds[1], other_bounds[1])

\* the left window holds both records, the right one the second record; both
\* are parsed
test_cmp_parsed(st) ==
    [st EXCEPT !.group0.parser = parse(st.group0.parser).parser,
               !.group1.parser = parse(st.group1.parser).parser,
               !.pc = "cmp"]

test_cmp_start(rec0, rec1, key0, key1) ==
    test_cmp_parsed(
        [start(BytesOf(<< rec0, rec1 >>, TRUE), BytesOf(<< rec1 >>, TRUE),
               Whole, Whole, Whole, Whole, key0, key1,
               [show_left |-> FALSE, show_right |-> FALSE, show_both |-> FALSE])
            EXCEPT !.input = [@ EXCEPT !.data0 = BytesOf(<< rec0, rec1 >>, TRUE)]
                             @@ [rec0 |-> rec0, rec1 |-> rec1]])

InitCmp ==
    \E r0 \in CmpRecs, r1 \in CmpRecs, k0 \in CmpKeyLists, k1 \in CmpKeyLists :
        Is(test_cmp_start(r0, r1, k0, k1))

\* the n-th record of the window o (n from 0)
window_record(o, n) == record_fields(o.idx.fields, o.idx.records, n)

\* the ends of the fields of ks laid end to end
RECURSIVE EndsFrom(_, _)
EndsFrom(ks, at) ==
    IF Len(ks) = 0 THEN << >>
    ELSE << at + Len(ks[1]) >> \o EndsFrom(Tail(ks), at + Len(ks[1]))

\* group_zerocopy.rs: cmp_records(buf0, buf1, rec_0, rec_1, key_idx0, key_idx1)
TestCmpRecords ==
    /\ pc = "cmp"
    /\ Becomes([State EXCEPT
          !.result = cmp_records(output(group0.parser).buf, output(group1.parser).buf,
                                 window_record(output(group0.parser), 0),
                                 window_record(output(group1.parser), 0),
                                 group0.key_idx, group1.key_idx),
          !.pc = "cmp_records"])

\* csvroll/group.rs: cmp_records(buf, rec_0, rec_1, key_idx)
TestCsvCmpRecords ==
    /\ pc = "cmp"
    /\ Becomes([State EXCEPT
          !.result = csv_cmp_records(output(group0.parser).buf,
                                     window_record(output(group0.parser), 0),
                                     window_record(output(group0.parser), 1),
                                     group0.key_idx),
          !.pc = "csv_cmp_records"])

\* record.rs: cmp_keys on the key fields of two records that have them
TestCmpKeys ==
    /\ pc = "cmp"
    /\ HasKey(input.rec0, group0.key_idx) /\ HasKey(input.rec1, group1.key_idx)
    /\ Becomes([State EXCEPT
          !.result = [ok |-> TRUE, e |-> 0,
                      ord |-> cmp_keys(Flatten(KeyOf(input.rec0, group0.key_idx)),
                                       EndsFrom(KeyOf(input.rec0, group0.key_idx), 0),
                                       Flatten(KeyOf(input.rec1, group1.key_idx)),
                                       EndsFrom(KeyOf(input.rec1, group1.key_idx), 0),
                                       0, 0)],
          !.pc = "cmp_keys"])

NextCmp == TestCmpRecords \/ TestCsvCmpRecords \/ TestCmpKeys

SpecCmp == InitCmp /\ [][NextCmp]_vars

\* ---------------------------------------------- the order of the keys (C35)
\* a is before b byte by byte, a proper prefix before the longer one
LexLess(a, b) ==
    \E i \in 0..Min(Len(a), Len(b)) :
        /\ \A j \in 1..i : a[j] = b[j]
        /\ \/ i = Len(a) /\ i < Len(b)
           \/ i < Len(a) /\ i < Len(b) /\ a[i + 1] < b[i + 1]

\* the key positions the two lists pair
KeyPositions(k0, k1) == 1..Min(Len(k0), Len(k1))

\* at position j both records have their key field, and the two are the
\* same bytes
SameAt(r0, r1, k0, k1, j) ==
    /\ k0[j] < Len(r0) /\ k1[j] < Len(r1)
    /\ r0[k0[j] + 1] = r1[k1[j] + 1]

\* what the comparison of the key tuples is, given the first position j
\* that is not SameAt, 0 if there is none
OrderAt(r0, r1, k0, k1, j) ==
    IF j = 0 THEN [ok |-> TRUE, ord |-> Equal, e |-> 0]
    ELSE IF k0[j] >= Len(r0) THEN [ok |-> FALSE, ord |-> Equal, e |-> 0]
    ELSE IF k1[j] >= Len(r1) THEN [ok |-> FALSE, ord |-> Equal, e |-> 1]
    ELSE IF LexLess(r0[k0[j] + 1], r1[k1[j] + 1]) THEN [ok |-> TRUE, ord |-> Less, e |-> 0]
    ELSE [ok |-> TRUE, ord |-> Greater, e |-> 0]

FirstDifference(r0, r1, k0, k1) ==
    IF \A j \in KeyPositions(k0, k1) : SameAt(r0, r1, k0, k1, j) THEN 0
    ELSE CHOOSE j \in KeyPositions(k0, k1) :
            /\ ~SameAt(r0, r1, k0, k1, j)
            /\ \A i \in 1..(j - 1) : SameAt(r0, r1, k0, k1, i)

KeyOrder(r0, r1, k0, k1) == OrderAt(r0, r1, k0, k1, FirstDifference(r0, r1, k0, k1))

\* C35: cmp_records returns the order of the fields at the first key
\* position where the records differ, byte by byte with a proper prefix
\* smaller, Equal exactly when the fields are the same at every key
\* position, and the missing-field error only for a key position reached
\* before any difference.
C35_KeyOrder ==
    /\ pc = "cmp_records" =>
          result = KeyOrder(input.rec0, input.rec1, group0.key_idx, group1.key_idx)
    /\ pc = "csv_cmp_records" =>
          /\ result.ok = KeyOrder(input.rec0, input.rec1, group0.key_idx, group0.key_idx).ok
          /\ result.ord = KeyOrder(input.rec0, input.rec1, group0.key_idx, group0.key_idx).ord
    /\ pc = "cmp_keys" =>
          result = KeyOrder(input.rec0, input.rec1, group0.key_idx, group1.key_idx)

\* C35 witness: the first key fields are equal, the second key field of the
\* left record is a proper prefix of the right one's, and a third key names
\* a field the left record lacks
C35_Witness ==
    /\ pc = "cmp_records"
    /\ input.rec0 = << << 97 >>, << 97 >> >> /\ input.rec1 = << << 97, 98 >>, << 97 >> >>
    /\ group0.key_idx = << 1, 0 >> /\ group1.key_idx = << 1, 0 >>
    /\ result = [ok |-> TRUE, ord |-> Less, e |-> 0]

\* the error is returned after an equal first key field
WitnessMissingAfterEqual ==
    /\ pc = "cmp_records"
    /\ group0.key_idx = << 0, 2 >> /\ group1.key_idx = << 0, 1 >>
    /\ ~result.ok /\ result.e = 0

\* a difference at the first key position hides a missing second key field
WitnessDifferenceFirst ==
    /\ pc = "cmp_records"
    /\ group0.key_idx = << 0, 2 >> /\ group1.key_idx = << 0, 1 >>
    /\ result.ok /\ result.ord = Greater

\* --------------------------------------- the RollBuf under every capacity
\* The calls of SpecRollBuf on a RollBuf that starts with any capacity: also
\* none at all, and one over max_cap.  There roll computes
\* max_cap - old_len below zero: a build with overflow checks panics, one
\* without wraps around (the outcome roll gives).
RbCapsAll == RbCaps \cup { 0, MAX_CAP + 1 }

InitRollCap ==
    \E n \in RbStreams, c \in RbCapsAll, l \in Lims : Is(test_rollbuf_start(n, c, l))

\* roll's else branch with a capacity over max_cap
roll_underflows(b) == b.pos = 0 /\ b.cap > b.max_cap

\* b.roll() in a build with overflow checks: attempt to subtract with overflow
RbRollPanic ==
    /\ pc \in RollBufCalls
    /\ roll_underflows(group0.parser.buf)
    /\ Becomes([State EXCEPT !.pc = "panic", !.result = Panicked])

NextRollCap == RbConsume \/ RbRoll \/ RbFill \/ RbRollPanic

SpecRollCap == InitRollCap /\ [][NextRollCap]_vars

\* ------------------------------------------- pos <= end <= capacity (C36)
\* C36: after any sequence of consume(n), roll() and fill_buf() calls, also
\* with n larger than the unconsumed length, pos <= end <= capacity; the
\* bytes held are those up to end.
C36_Bounds ==
    /\ 0 <= group0.parser.buf.pos
    /\ group0.parser.buf.pos <= group0.parser.buf.end
    /\ group0.parser.buf.end <= group0.parser.buf.cap
    /\ Len(group0.parser.buf.buf) = group0.parser.buf.end

\* C36 witness: the window [1, 2] of capacity 3 was consumed whole by a
\* consume call (of 2, 3 or 4 bytes) before the rest of the stream was read
C36_Witness ==
    /\ pc = "consume" /\ input.cap0 = 3 /\ Len(input.data0) = 7
    /\ group0.parser.buf.pos = 2 /\ group0.parser.buf.end = 2
    /\ Len(Unread) = 5

\* ---------------------------------------------- the capacity's growth (C37)
\* C37: the capacity never decreases; whenever it changes, the new capacity
\* is min(2 * old capacity, 2^24); the growth amount is computed without
\* underflow, also from an initial capacity over 2^24.
C37_Growth ==
    [][/\ group0.parser.buf'.cap >= group0.parser.buf.cap
       /\ group0.parser.buf'.cap # group0.parser.buf.cap
             => group0.parser.buf'.cap = Min(2 * group0.parser.buf.cap, MAX_CAP)
       /\ pc' \in {"roll", "panic"} => ~roll_underflows(group0.parser.buf)]_vars

\* Up to max_cap the capacity never decreases and grows to
\* min(2 * old capacity, 2^24).
GrowthToMaxCap ==
    [][group0.parser.buf.cap <= MAX_CAP
        => /\ group0.parser.buf'.cap >= group0.parser.buf.cap
           /\ group0.parser.buf'.cap # group0.parser.buf.cap
                 => group0.parser.buf'.cap = Min(2 * group0.parser.buf.cap, MAX_CAP)
           /\ pc' # "panic"]_vars

\* --------------------------------------------------- Record (record.rs)
\* A Record built by RecordBuilder::default().keys(K).build() and loaded,
\* once or again, with the fields of a record laid end to end and their
\* ends.  group0 holds the Record, result what build or load returned.
\* the most fields of a loaded record
MaxRecFields == 3
\* the most key indices of a Record
MaxRecKeys == 2

\* RecordBuilder::keys: key_idx as given, key_idx_asc sorted and checked
builder_keys(k) ==
    [key_idx |-> k, key_idx_asc |-> sort(k),
     unique |-> \A i \in 1..(Len(k) - 1) : sort(k)[i] # sort(k)[i + 1]]

\* RecordBuilder::build
record_build(b) ==
    IF ~b.unique THEN [ok |-> FALSE, msg |-> "the key fields must be unique"]
    ELSE [ok |-> TRUE,
          rec |-> [fields |-> << >>, fields_bounds |-> << >>,
                   key_fields |-> << >>, key_fields_bounds |-> << >>,
                   non_key_fields |-> << >>, non_key_fields_bounds |-> << >>,
                   key_idx |-> b.key_idx, key_idx_asc |-> b.key_idx_asc]]

\* get_bound(ends, i)
get_bound(ends, i) ==
    IF i >= Len(ends) THEN None ELSE Some(Rng(IF i = 0 THEN 0 ELSE ends[i], ends[i + 1]))

\* Record::clear
record_clear(r) ==
    [r EXCEPT !.fields = << >>, !.fields_bounds = << >>,
              !.key_fields = << >>, !.key_fields_bounds = << >>,
              !.non_key_fields = << >>, !.non_key_fields_bounds = << >>]

\* self.fields_bounds.get(i).map(|r| &self.fields[r]) and its like
bound_field(bytes, bound) ==
    IF bound = None THEN None ELSE Some(Slice(bytes, bound[1].start, bound[1].end))

get_field(r, i) == bound_field(r.fields, get_bound(r.fields_bounds, i))

get_key_field(r, i) == bound_field(r.key_fields, get_bound(r.key_fields_bounds, i))

get_non_key_field(r, i) == bound_field(r.non_key_fields, get_bound(r.non_key_fields_bounds, i))

\* set_key_fields: for &nf in &self.key_idx { ... }, from the i-th key on
RECURSIVE set_key_fields_from(_, _, _)
set_key_fields_from(r, i, end_last) ==
    IF i > Len(r.key_idx) THEN [ok |-> TRUE, rec |-> r, nf |-> 0]
    ELSE IF get_field(r, r.key_idx[i]) = None THEN [ok |-> FALSE, rec |-> r, nf |-> r.key_idx[i]]
    ELSE set_key_fields_from(
            [r EXCEPT !.key_fields = @ \o get_field(r, r.key_idx[i])[1],
                      !.key_fields_bounds =
                          Append(@, end_last + Len(get_field(r, r.key_idx[i])[1]))],
            i + 1, end_last + Len(get_field(r, r.key_idx[i])[1]))

set_key_fields(r) == set_key_fields_from(r, 1, 0)

\* set_non_key_fields that goes through the keys in the order given, not in
\* ascending order (the mutant of set_non_key_fields_from for C39)
RECURSIVE set_non_key_fields_given(_, _, _, _, _)
set_non_key_fields_given(r, nf, ko, fe_last, nkfe_last) ==
    IF nf >= Len(r.fields_bounds) THEN r
    ELSE IF ko <= Len(r.key_idx) /\ r.key_idx[ko] = nf
    THEN set_non_key_fields_given(r, nf + 1, ko + 1, r.fields_bounds[nf + 1], nkfe_last)
    ELSE set_non_key_fields_given(
            [r EXCEPT !.non_key_fields = @ \o Slice(r.fields, fe_last, r.fields_bounds[nf + 1]),
                      !.non_key_fields_bounds =
                          Append(@, nkfe_last + (r.fields_bounds[nf + 1] - fe_last))],
            nf + 1, ko, r.fields_bounds[nf + 1],
            nkfe_last + (r.fields_bounds[nf + 1] - fe_last))

\* set_non_key_fields: for &fe in &self.fields_bounds.ends { ... }, from the
\* field nf on; ko is the place of kit in key_idx_asc
RECURSIVE set_non_key_fields_from(_, _, _, _, _)
set_non_key_fields_from(r, nf, ko, fe_last, nkfe_last) ==
    IF nf >= Len(r.fields_bounds) THEN r
    ELSE IF ko <= Len(r.key_idx_asc) /\ r.key_idx_asc[ko] = nf
    THEN set_non_key_fields_from(r, nf + 1, ko + 1, r.fields_bounds[nf + 1], nkfe_last)
    ELSE set_non_key_fields_from(
            [r EXCEPT !.non_key_fields = @ \o Slice(r.fields, fe_last, r.fields_bounds[nf + 1]),
                      !.non_key_fields_bounds =
                          Append(@, nkfe_last + (r.fields_bounds[nf + 1] - fe_last))],
            nf + 1, ko, r.fields_bounds[nf + 1],
            nkfe_last + (r.fields_bounds[nf + 1] - fe_last))

set_non_key_fields(r) == set_non_key_fields_from(r, 0, 1, 0, 0)

\* load: self.set_key_fields()?; self.set_non_key_fields()?; Ok(())
load_keyed(k) ==
    IF ~k.ok
    THEN [rec |-> k.rec, res |-> Res("err", "", "The key field not found in data", k.nf)]
    ELSE [rec |-> set_non_key_fields(k.rec), res |-> Ok]

\* Record::load(fields, ends)
load(r, fields, ends) ==
    load_keyed(set_key_fields([record_clear(r) EXCEPT !.fields = fields, !.fields_bounds = ends]))

\* the fields a record is made of
RecFieldBytes == { << >>, << 97 >>, << 98, 99 >> }
RecFieldLists == UNION { [1..n -> RecFieldBytes] : n \in 0..MaxRecFields }
RecKeyLists == UNION { [1..n -> 0..MaxRecFields] : n \in 0..MaxRecKeys }

\* the state after RecordBuilder::default().keys(k).build()
test_record_built(st, k, b) ==
    [st EXCEPT !.input = [key_idx |-> k, loaded |-> << >>],
               !.group0 = IF b.ok THEN b.rec ELSE None,
               !.result = IF b.ok THEN Ok ELSE Res("err", "", b.msg, 0),
               !.pc = IF b.ok THEN "record" ELSE "no_record"]

test_record_start(k) ==
    test_record_built(start(<< >>, << >>, 1, 1, 1, 1, << 0 >>, << 0 >>,
                            [show_left |-> FALSE, show_right |-> FALSE, show_both |-> FALSE]),
                      k, record_build(builder_keys(k)))

InitRecord == \E k \in RecKeyLists : Is(test_record_start(k))

test_record_loaded(st, fs, l) ==
    [st EXCEPT !.input.loaded = fs, !.group0 = l.rec, !.result = l.res, !.pc = "load"]

\* rec.load(fields, ends)
RecLoad ==
    /\ pc \in {"record", "load"}
    /\ \E fs \in RecFieldLists :
          Becomes(test_record_loaded(State, fs, load(group0, Flatten(fs), EndsFrom(fs, 0))))

NextRecord == RecLoad

SpecRecord == InitRecord /\ [][NextRecord]_vars

\* ------------------------------------------ the fields of a Record (C39)
\* the field n of fs is not a key field
NotKey(k, n) == \A i \in 1..Len(k) : k[i] # n

\* the indices of the fields of fs that are not key fields, and the j-th of
\* them in the order of the record (j from 0)
NonKeys(fs, k) == { n \in 0..(Len(fs) - 1) : NotKey(k, n) }

NthNonKey(fs, k, j) ==
    CHOOSE n \in NonKeys(fs, k) : Cardinality({ m \in NonKeys(fs, k) : m < n }) = j

\* the indices a getter is asked for: every one in range and two past it
Asked == 0..(MaxRecFields + 1)

\* C39: after load(fields, ends) on a Record with key list K,
\* get_key_field(i) is the field K[i] (in the order of K, not sorted),
\* get_non_key_field(j) is the j-th field whose index is not in K, in the
\* order of the record, both are None past their counts, and load returns
\* an error when an index of K is not smaller than the number of fields.
C39_KeyAndNonKeyFields ==
    pc = "load" =>
        /\ result # Ok <=> \E i \in 1..Len(input.key_idx) : input.key_idx[i] >= Len(input.loaded)
        /\ result = Ok =>
              \A i \in Asked :
                 /\ get_key_field(group0, i)
                      = IF i < Len(input.key_idx)
                        THEN Some(input.loaded[input.key_idx[i + 1] + 1]) ELSE None
                 /\ get_non_key_field(group0, i)
                      = IF i < Cardinality(NonKeys(input.loaded, input.key_idx))
                        THEN Some(input.loaded[NthNonKey(input.loaded, input.key_idx, i) + 1])
                        ELSE None
                 /\ get_field(group0, i)
                      = IF i < Len(input.loaded) THEN Some(input.loaded[i + 1]) ELSE None

\* C39 witness: the doc example's key list [1, 0] on a record of three
\* different fields: the key fields come second field first, the third
\* field is the only other one
C39_Witness ==
    /\ pc = "load" /\ result = Ok
    /\ input.key_idx = << 1, 0 >>
    /\ input.loaded = << << 97 >>, << 98, 99 >>, << >> >>
    /\ get_key_field(group0, 0) = Some(<< 98, 99 >>)
    /\ get_key_field(group0, 1) = Some(<< 97 >>)
    /\ get_non_key_field(group0, 0) = Some(<< >>)
    /\ get_non_key_field(group0, 1) = None

\* load returned the error for the second key of the list
WitnessKeyNotFound ==
    /\ pc = "load" /\ input.key_idx = << 0, 2 >> /\ Len(input.loaded) = 2
    /\ result.kind = "err" /\ result.n = 2

\* ------------------------------------------ runs under a reachable ceiling
\* RollBuf::with_capacity sets max_cap to 1 << 24.  An input that fills a
\* window of 2^24 bytes is too large to enumerate, so these runs have
\* the ceiling scaled down to a few bytes (next to runs under the ceiling of
\* the source): roll then meets min(old_len, max_cap - old_len) = 0 as it
\* does at 2^24 bytes.
MaxCapScaled == 4

Ceilings == { MaxCapScaled, MAX_CAP }

\* with_capacity with max_cap given
with_ceiling(st, ceiling) ==
    [st EXCEPT !.input = @ @@ [ceiling |-> ceiling],
               !.group0.parser.buf.max_cap = ceiling,
               !.group1.parser.buf.max_cap = ceiling]

\* initial capacities not over the scaled ceiling
CeilingCaps == { 1, MaxCapScaled }

\* run() of main.rs before it builds the two RollBufs
new_run ==
    [with_ceiling(start(<< >>, << >>, 1, 1, 1, 1, << 0 >>, << 0 >>,
                        [show_left |-> TRUE, show_right |-> TRUE, show_both |-> TRUE]),
                  MAX_CAP)
        EXCEPT !.pc = "new"]

InitCeiling == Is(new_run)

\* RollBuf::with_capacity, Parser::from_parts and KeyFirst::from_parts over
\* a pair of inputs
CeilingStart ==
    /\ pc = "new"
    /\ \E d0 \in Inputs(MaxRecs), d1 \in Inputs(MaxRecs), c \in CeilingCaps, l \in Lims, m \in Ceilings :
          Becomes(with_ceiling(start(d0, d1, c, c, l, l, << 0 >>, << 0 >>,
                                     [show_left |-> TRUE, show_right |-> TRUE,
                                      show_both |-> TRUE]),
                               m))

NextCeiling == CeilingStart \/ GroupInit \/ NextGroupLeft \/ NextGroupRight \/ JoinMatch

SpecCeiling == InitCeiling /\ [][NextCeiling]_vars

\* a step of join is to be taken and changes the state: what
\* ENABLED <<Next>>_vars says of a state
CanStep == pc \notin {"new", "done"} /\ step(State) # State

\* join is one thread that runs on until it returns: weak fairness of its
\* steps, WF_vars(Next), with its ENABLED written as CanStep
FairCeiling == SpecCeiling /\ (<>[]CanStep => []<><<Next>>_vars)

\* ------------------------------------------------------- termination (C38)
\* C38: for every pair of finite inputs and every initial capacity >= 1
\* join, once called, eventually returns, also when a record or a group of
\* records with one key is longer than the capacity the RollBuf can grow
\* to.  join is deterministic, so it returns only if no state before its
\* return is left as it is by the pass of next_group or the match that
\* comes next; such a pass is made again for ever.
C38_Terminates == pc \in {"new", "done"} \/ CanStep

\* The same as a property of the fair runs: join, once called, returns.
EventuallyReturns == (pc = "init") ~> (pc = "done")

\* While the capacity can grow to hold every record and group, join returns.
TerminatesUnderCeiling == (pc = "init" /\ input.ceiling = MAX_CAP) ~> (pc = "done")

\* a pass of next_group that slides at the ceiling and leaves everything as
\* it was
StuckAtCeiling ==
    /\ pc = "left"
    /\ group0.is_buf_full
    /\ group0.parser.buf.cap = group0.parser.buf.max_cap
    /\ join_next0(State) = State

====
